---- MODULE Spec2Model ----
(***************************************************************************)
(* Model of the data pipeline of srt-myashes-backend:                      *)
(*   data-pipeline/app/processors/chunk_processor.py  (Document Chunker)   *)
(*   data-pipeline/app/indexers/vector_indexer.py     (Embedding + Index)  *)
(*   data-pipeline/app/scrapers/codex_scraper.py      (per-category scrape)*)
(*   data-pipeline/app/main.py                        (run_data_pipeline)  *)
(*                                                                         *)
(* A text is a sequence of runs [c, n]: n repetitions of a character of    *)
(* class c, where c is "x" (any character that is neither whitespace nor   *)
(* a sentence terminator), "dot" (one of . ! ?), "sp" (a blank) or "nl"    *)
(* (a newline).  len(text) is the sum of the run lengths, and the two      *)
(* regular expressions of chunk_text are evaluated on the runs.            *)
(***************************************************************************)
EXTENDS Integers, Sequences, FiniteSets, TLC

VARIABLES
    ct_pc,        \* chunker driver: "input", "text_done", "docs_done"
    ct_text,      \* the text handed to chunk_text / stored in the raw document
    ct_chunks,    \* the list returned by chunk_text or chunk_documents
    processed,    \* {type}_chunks.json files written by chunk_documents
    embedding_model, \* vector_indexer._embedding_model: "None" or "loaded"
    ge_pc,        \* embedding driver: "idle", "input", "done", "got", "get_raised"
    ge_texts,     \* generate_embeddings.texts
    ge_batch_size,\* generate_embeddings.batch_size
    ge_result,    \* what the call did: [status, value]
    coll_exists,  \* utility.has_collection(MILVUS_COLLECTION)
    coll_has_index, \* collection.has_index()
    coll_rows,    \* the rows of the collection, in insertion order
    ix_hist,      \* the last index_documents / delete_documents_by_source calls
    ix_count,     \* number of index_documents / delete_documents_by_source calls
    now,          \* time.time()
    last_scrape,  \* codex: {category}/_last_scrape.txt (0 when there is none)
    raw_files,    \* codex: the raw JSON files of each category
    official_last_scrape, \* official: the _last_scrape.txt of its categories
    official_raw, \* official: race_documents.json and all_documents.json
    run_pc,       \* run_data_pipeline: "idle", "scraping", "chunked", "done", "failed"
    run_force,    \* run_data_pipeline.force_full_scrape
    runs,         \* number of runs started
    cat_pc,       \* process_category per category: "idle", "scraping", "finished"
    cat_url,      \* process_category: number of the next URL of the category
    cat_docs,     \* process_category.all_documents
    cat_outcome,  \* how process_category ended: "none", "skipped", "failed", "scraped"
    official_pc,  \* scrape_official_website: "idle", "finished"
    fetch_failed, \* categories with a page fetch that failed in this run
    stamped,      \* categories whose last_scrape_time was written in this run
    official_stamped, \* the official timestamps were written in this run
    next_id,      \* number of uuid4 values drawn so far
    run_chunks,   \* the chunks chunk_documents returned in this run
    setup_result, \* how the last setup_vector_collection call ended
    model_loads,  \* SentenceTransformer objects this process has constructed
    vs_store,     \* backend vector_store._vector_store: "None" or "Collection"
    vs_model,     \* backend vector_store._embedding_model: "None" or "loaded"
    vs_absent_seen, \* a query_vector_store call of this process found no collection
    q_last,       \* the last retrieval call and what it did
    db_builds,    \* backend database: the rows of table builds
    db_votes,     \* backend database: the rows of table build_votes
    next_build,   \* number of build ids generated so far
    resp,         \* the last response sent and the request it answers
    created_with, \* for each build created: its id and the header and user of the request
    tx,           \* per worker: the vote request it is handling
    redis_up,     \* whether the Redis server can be reached
    redis_client, \* cache._redis_client: "None" or "Client"
    redis_available, \* cache._redis_available
    redis_pool,   \* cache._connection_pool: "None" or "Pool"
    redis_keys,   \* the keys the Redis server holds
    cache_last    \* the last cache helper call and what it did

chunk_vars == <<ct_pc, ct_text, ct_chunks, processed>>
embed_vars == <<embedding_model, ge_pc, ge_texts, ge_batch_size, ge_result>>

index_vars == <<coll_exists, coll_has_index, coll_rows, ix_hist, ix_count>>

pipe_vars == <<now, last_scrape, raw_files, official_last_scrape, official_raw,
               run_pc, run_force, runs, cat_pc, cat_url, cat_docs, cat_outcome,
               official_pc, fetch_failed, stamped, official_stamped, next_id,
               run_chunks>>

query_vars == <<vs_store, vs_model, vs_absent_seen, q_last>>

build_vars == <<db_builds, db_votes, next_build, created_with, resp, tx>>

cache_vars == <<redis_up, redis_client, redis_available, redis_pool, redis_keys,
               cache_last>>

web_vars == <<build_vars, cache_vars>>

vars == <<chunk_vars, embed_vars, index_vars, pipe_vars, setup_result,
          model_loads, query_vars, web_vars>>

(***************************************************************************)
(* Program constants (chunk_processor.py:12-13)                            *)
(***************************************************************************)
MAX_CHUNK_SIZE == 1024
MIN_CHUNK_SIZE == 50

(***************************************************************************)
(* Bounds of the model                                                     *)
(***************************************************************************)
MaxTokens == 5      \* longest input text, in runs
MaxTexts == 4       \* longest list handed to generate_embeddings
MaxBatchSize == 3   \* largest batch_size handed to generate_embeddings
MaxOps == 3         \* index_documents / delete_documents_by_source calls made
MaxRuns == 2        \* pipeline runs started
MaxLimit == 2       \* largest limit of a retrieval call
MaxLoads == 2       \* model constructions counted per process
MaxTicks == 1       \* times the clock advances
UrlsPerCategory == 1 \* URLs scraped per codex category

(***************************************************************************)
(* The state of each component before it is used                           *)
(***************************************************************************)
FRESH_WINDOW == 86400
\* the clock is read at steps of one freshness window
TickSeconds == FRESH_WINDOW

\* category -> URLs of codex_scraper.SCRAPE_URLS, two of its categories
CategoryOrder == <<"crafting", "locations">>
CodexCategories == {CategoryOrder[i] : i \in 1..Len(CategoryOrder)}
Urls == 1..UrlsPerCategory

\* time.time() at process start: later than any freshness window after 0
StartTime == 2 * FRESH_WINDOW

ChunkIdle ==
    /\ ct_pc = "idle"
    /\ ct_text = <<>>
    /\ ct_chunks = <<>>

EmbedIdle ==
    /\ ge_pc = "idle"
    /\ ge_texts = <<>>
    /\ ge_batch_size = 1
    /\ ge_result = [status |-> "none", value |-> <<>>]

IndexIdle ==
    /\ coll_exists = FALSE
    /\ coll_has_index = FALSE
    /\ coll_rows = <<>>
    /\ ix_hist = <<>>
    /\ ix_count = 0
    /\ setup_result = "none"

NoQuery == [fn |-> "none"]

QueryIdle ==
    /\ vs_store = "None"
    /\ vs_model = "None"
    /\ vs_absent_seen = FALSE
    /\ q_last = NoQuery

Workers == {1, 2}

\* a worker that is handling no request
NoRequest == [pc |-> "idle"]

NoCacheCall == [fn |-> "none", latched |-> FALSE, n |-> 0]

\* The backend before its first request: empty tables, no Redis client
WebIdle ==
    /\ db_builds = {}
    /\ db_votes = {}
    /\ next_build = 0
    /\ created_with = {}
    /\ resp = [fn |-> "none"]
    /\ tx = [w \in Workers |-> NoRequest]
    /\ redis_up = TRUE
    /\ redis_client = "None"
    /\ redis_available = TRUE
    /\ redis_pool = "None"
    /\ redis_keys = {}
    /\ cache_last = NoCacheCall

NoRawFiles == [c \in CodexCategories |-> [pages |-> [u \in Urls |-> <<>>], all |-> <<>>]]

PipeIdle ==
    /\ now = StartTime
    /\ last_scrape = [c \in CodexCategories |-> 0]
    /\ raw_files = NoRawFiles
    /\ official_last_scrape = 0
    /\ official_raw = [page |-> <<>>, all |-> <<>>]
    /\ run_pc = "idle"
    /\ run_force = FALSE
    /\ runs = 0
    /\ cat_pc = [c \in CodexCategories |-> "idle"]
    /\ cat_url = [c \in CodexCategories |-> 1]
    /\ cat_docs = [c \in CodexCategories |-> <<>>]
    /\ cat_outcome = [c \in CodexCategories |-> "none"]
    /\ official_pc = "idle"
    /\ fetch_failed = {}
    /\ stamped = {}
    /\ official_stamped = FALSE
    /\ next_id = 0
    /\ run_chunks = <<>>

(***************************************************************************)
(* Texts                                                                   *)
(***************************************************************************)
W(n) == [c |-> "x", n |-> n]
DOT  == [c |-> "dot", n |-> 1]
SP   == [c |-> "sp", n |-> 1]
NL1  == [c |-> "nl", n |-> 1]
NL2  == [c |-> "nl", n |-> 2]

\* The runs an input text is built from.  20 + 1003 = MAX_CHUNK_SIZE - 1.
Tokens == {W(20), W(500), W(1003), W(1030), DOT, SP, NL1, NL2}

RECURSIVE SeqsUpTo(_, _)
SeqsUpTo(S, k) ==
    IF k = 0 THEN {<<>>}
    ELSE LET shorter == SeqsUpTo(S, k - 1)
         IN  shorter \cup {Append(s, x) : s \in {t \in shorter : Len(t) = k - 1}, x \in S}

Texts == SeqsUpTo(Tokens, MaxTokens)

\* len(text)
RECURSIVE TextLen(_)
TextLen(t) == IF t = <<>> THEN 0 ELSE Head(t).n + TextLen(Tail(t))

IsSpace(tok) == tok.c \in {"sp", "nl"}

\* str.strip() == "" : the text has no character that is not whitespace
IsBlank(t) == \A i \in 1..Len(t) : IsSpace(t[i])

\* Last index of the maximal whitespace run that starts at index i.
RECURSIVE RunEnd(_, _)
RunEnd(t, i) ==
    IF i < Len(t) /\ IsSpace(t[i + 1]) THEN RunEnd(t, i + 1) ELSE i

\* Number of newline characters in t[i..j].
RECURSIVE Newlines(_, _, _)
Newlines(t, i, j) ==
    IF i > j THEN 0
    ELSE (IF t[i].c = "nl" THEN t[i].n ELSE 0) + Newlines(t, i + 1, j)

\* Index of the last newline run in t[i..j] (t[i] is a newline run).
RECURSIVE LastNl(_, _, _)
LastNl(t, i, j) ==
    IF j > i /\ t[j].c # "nl" THEN LastNl(t, i, j - 1) ELSE j

\* re.split(r'\n\s*\n', text): the leftmost match starts at the first newline
\* of a whitespace run and, \s* being greedy, ends at the last newline of that
\* run; a run with a single newline character is no match.
RECURSIVE ParaSplit(_, _, _)
ParaSplit(t, start, i) ==
    IF i > Len(t) THEN <<SubSeq(t, start, Len(t))>>
    ELSE IF t[i].c = "nl"
         THEN LET b == LastNl(t, i, RunEnd(t, i))
              IN  IF Newlines(t, i, b) >= 2
                  THEN <<SubSeq(t, start, i - 1)>> \o ParaSplit(t, b + 1, b + 1)
                  ELSE ParaSplit(t, start, i + 1)
         ELSE ParaSplit(t, start, i + 1)

SplitParagraphs(t) == ParaSplit(t, 1, 1)

\* re.split(r'(?<=[.!?])\s+', para): a delimiter is a maximal whitespace run
\* whose preceding character is a sentence terminator.
RECURSIVE SentSplit(_, _, _)
SentSplit(p, start, i) ==
    IF i > Len(p) THEN <<SubSeq(p, start, Len(p))>>
    ELSE IF IsSpace(p[i]) /\ i > 1 /\ p[i - 1].c = "dot"
         THEN LET j == RunEnd(p, i)
              IN  <<SubSeq(p, start, i - 1)>> \o SentSplit(p, j + 1, j + 1)
         ELSE SentSplit(p, start, i + 1)

SplitSentences(p) == SentSplit(p, 1, 1)

\* "\n\n".join(segments)
RECURSIVE Join(_)
Join(segs) ==
    IF segs = <<>> THEN <<>>
    ELSE IF Len(segs) = 1 THEN segs[1]
    ELSE segs[1] \o <<NL2>> \o Join(Tail(segs))

(***************************************************************************)
(* chunk_text.  A chunk is [text, chunk_index, segments]; segments is the  *)
(* current_chunk list the text was joined from (kept to state the overlap  *)
(* property; the program stores only the joined text).                     *)
(***************************************************************************)
MakeChunk(current_chunk, chunk_index) ==
    [text |-> Join(current_chunk), chunk_index |-> chunk_index,
     segments |-> current_chunk]

EmptyState ==
    [chunks |-> <<>>, current_chunk |-> <<>>, current_size |-> 0, chunk_index |-> 0]

\* CloseChunk with "chunk_index += 1" forgotten
CloseChunk_KeepIndex(st) ==
    LET overlap_text == IF st.current_chunk # <<>>
                        THEN st.current_chunk[Len(st.current_chunk)] ELSE <<>>
    IN  [chunks        |-> Append(st.chunks, MakeChunk(st.current_chunk, st.chunk_index)),
         current_chunk |-> IF overlap_text # <<>> THEN <<overlap_text>> ELSE <<>>,
         current_size  |-> IF overlap_text # <<>> THEN TextLen(overlap_text) ELSE 0,
         chunk_index   |-> st.chunk_index]

\* lines 95-110 / 117-132: emit the buffer, seed the next one with its last segment
CloseChunk(st) ==
    LET overlap_text == IF st.current_chunk # <<>>
                        THEN st.current_chunk[Len(st.current_chunk)] ELSE <<>>
    IN  [chunks        |-> Append(st.chunks, MakeChunk(st.current_chunk, st.chunk_index)),
         current_chunk |-> IF overlap_text # <<>> THEN <<overlap_text>> ELSE <<>>,
         current_size  |-> IF overlap_text # <<>> THEN TextLen(overlap_text) ELSE 0,
         chunk_index   |-> st.chunk_index + 1]

\* lines 90-113, one sentence of an oversized paragraph
AddSentence(st, sentence) ==
    LET sentence_size == TextLen(sentence)
        st1 == IF st.current_size + sentence_size > MAX_CHUNK_SIZE
                  /\ st.current_size > MIN_CHUNK_SIZE
               THEN CloseChunk(st) ELSE st
    IN  [st1 EXCEPT !.current_chunk = Append(@, sentence),
                    !.current_size  = @ + sentence_size]

\* lines 115-135, one paragraph that fits MAX_CHUNK_SIZE
AddParagraph(st, para) ==
    LET para_size == TextLen(para)
        st1 == IF st.current_size + para_size > MAX_CHUNK_SIZE
                  /\ st.current_size > MIN_CHUNK_SIZE
               THEN CloseChunk(st) ELSE st
    IN  [st1 EXCEPT !.current_chunk = Append(@, para),
                    !.current_size  = @ + para_size]

RECURSIVE AddSentences(_, _)
AddSentences(st, sentences) ==
    IF sentences = <<>> THEN st
    ELSE AddSentences(AddSentence(st, Head(sentences)), Tail(sentences))

\* lines 84-135, the loop over the paragraphs
RECURSIVE AddParagraphs(_, _)
AddParagraphs(st, paragraphs) ==
    IF paragraphs = <<>> THEN st
    ELSE LET para == Head(paragraphs)
             st1  == IF TextLen(para) > MAX_CHUNK_SIZE
                     THEN AddSentences(st, SplitSentences(para))
                     ELSE AddParagraph(st, para)
         IN  AddParagraphs(st1, Tail(paragraphs))

\* FinalChunk that drops a buffer of at most MIN_CHUNK_SIZE characters
FinalChunk_OnlyIfLarge(st) ==
    IF st.current_chunk # <<>> /\ st.current_size > MIN_CHUNK_SIZE
    THEN Append(st.chunks, MakeChunk(st.current_chunk, st.chunk_index))
    ELSE st.chunks

\* lines 137-150, the final chunk
FinalChunk(st) ==
    IF st.current_chunk # <<>>
    THEN Append(st.chunks, MakeChunk(st.current_chunk, st.chunk_index))
    ELSE st.chunks

\* SplitIntoChunks with the fast path of lines 64-75 removed
SplitIntoChunks_NoFastPath(text) ==
    FinalChunk(AddParagraphs(EmptyState, SplitParagraphs(text)))

\* lines 62-150 without the ids and the document's fields
SplitIntoChunks(text) ==
    IF TextLen(text) <= MAX_CHUNK_SIZE
    THEN <<[text |-> text, chunk_index |-> 0, segments |-> <<text>>]>>
    ELSE FinalChunk(AddParagraphs(EmptyState, SplitParagraphs(text)))

\* lines 48-150.  uuid.uuid4() is modelled as a fresh number: the chunks of
\* one call get the ids first_id + 1, first_id + 2, ...  A chunk is a Python
\* dict (lines 67-74, 97-104, 140-147): py_type records it.
chunk_text(text, source, doc_type, first_id) ==
    LET core == SplitIntoChunks(text)
    IN  [i \in 1..Len(core) |->
            [text |-> core[i].text, chunk_index |-> core[i].chunk_index,
             segments |-> core[i].segments, id |-> first_id + i,
             source |-> source, type |-> doc_type, py_type |-> "dict"]]

\* lines 168-181 of chunk_documents: the loop over the raw documents
RECURSIVE ChunkAll(_, _)
ChunkAll(docs, first_id) ==
    IF docs = <<>> THEN <<>>
    ELSE LET doc    == Head(docs)
             chunks == IF doc.text = <<>> THEN <<>>
                       ELSE chunk_text(doc.text, doc.source, doc.type, first_id)
         IN  chunks \o ChunkAll(Tail(docs), first_id + Len(chunks))

\* lines 186-198 of chunk_documents: the chunks grouped by type, one file each
GroupByType(chunks) ==
    [ty \in {chunks[i].type : i \in 1..Len(chunks)} |->
        SelectSeq(chunks, LAMBDA c : c.type = ty)]

\* The adjacent runs of one character class merged: two run sequences are
\* the same string iff their canonical forms are equal.
RECURSIVE Canon(_)
Canon(t) ==
    IF Len(t) <= 1 THEN t
    ELSE LET r == Canon(Tail(t))
         IN  IF Head(t).c = Head(r).c
             THEN <<[c |-> Head(t).c, n |-> Head(t).n + Head(r).n]>> \o Tail(r)
             ELSE <<Head(t)>> \o r

(***************************************************************************)
(* generate_embeddings (vector_indexer.py:17-77).  The embedding model is  *)
(* external: Embed(text) stands for the vector it computes for a text, the *)
(* same whatever batch the text is encoded in.                             *)
(***************************************************************************)
Embed(text) == [embedding_of |-> text]

\* model.encode(batch, convert_to_tensor=True).cpu().numpy(): one row per text
Encode(batch) == [i \in 1..Len(batch) |-> Embed(batch[i])]

Min(a, b) == IF a <= b THEN a ELSE b

\* BatchAt that loses the last text of every batch (texts[i:i + batch_size - 1])
BatchAt_OffByOne(texts, i, batch_size) ==
    SubSeq(texts, i + 1, Min(i + batch_size - 1, Len(texts)))

\* texts[i:i + batch_size]
BatchAt(texts, i, batch_size) ==
    SubSeq(texts, i + 1, Min(i + batch_size, Len(texts)))

\* lines 54-65: all_embeddings, one array per batch, for i in range(i, len, batch_size)
RECURSIVE EmbedBatches(_, _, _)
EmbedBatches(texts, i, batch_size) ==
    IF i >= Len(texts) THEN <<>>
    ELSE <<Encode(BatchAt(texts, i, batch_size))>>
         \o EmbedBatches(texts, i + batch_size, batch_size)

\* np.vstack(all_embeddings).tolist()
RECURSIVE VStack(_)
VStack(arrays) ==
    IF arrays = <<>> THEN <<>> ELSE Head(arrays) \o VStack(Tail(arrays))

\* lines 67-73
Concatenate(all_embeddings) ==
    IF Len(all_embeddings) > 1 THEN VStack(all_embeddings)
    ELSE IF Len(all_embeddings) = 1 THEN all_embeddings[1]
    ELSE <<>>

\* Number of batches of range(0, n, batch_size)
NumBatches(n, batch_size) == (n + batch_size - 1) \div batch_size

\* LoadAttempted that constructs a model on every call
LoadAttempted_Always(model) == TRUE

\* line 24: if _embedding_model is None
LoadAttempted(model) == model = "None"

\* lines 20-37: the model after get_embedding_model(); load_ok tells whether
\* SentenceTransformer(...) succeeds when a load is attempted.
ModelAfterGet(model, load_ok) ==
    IF LoadAttempted(model) /\ load_ok THEN "loaded" ELSE model

\* lines 24-31: the number of models constructed after get_embedding_model()
LoadsAfterGet(model, loads, load_ok) ==
    IF LoadAttempted(model) /\ load_ok /\ loads < MaxLoads
    THEN loads + 1 ELSE loads

\* lines 24-31: the number of models constructed, after a call that found
\* the model as `before` and left it as `after`
LoadsAfter(before, after, loads) ==
    IF before = "None" /\ after # "None"
    THEN IF loads < MaxLoads THEN loads + 1 ELSE loads
    ELSE loads

\* lines 39-77: [status, value] of generate_embeddings(texts, batch_size) with
\* the model as it is after get_embedding_model(); encode_ok tells whether
\* every model.encode call succeeds.
generate_embeddings(texts, batch_size, model, encode_ok) ==
    IF model = "None" THEN [status |-> "raised", value |-> <<>>]
    ELSE IF ~encode_ok /\ texts # <<>> THEN [status |-> "raised", value |-> <<>>]
    ELSE [status |-> "returned",
          value  |-> Concatenate(EmbedBatches(texts, 0, batch_size))]

EmbedTexts == {<<>>, <<W(20)>>, <<W(500)>>}

EmbedInit ==
    /\ ChunkIdle
    /\ processed = <<>>
    /\ embedding_model = "None"
    /\ model_loads = 0
    /\ ge_pc = "input"
    /\ ge_texts \in SeqsUpTo(EmbedTexts, MaxTexts)
    /\ ge_batch_size \in 1..MaxBatchSize
    /\ ge_result = [status |-> "none", value |-> <<>>]
    /\ IndexIdle
    /\ PipeIdle
    /\ QueryIdle
    /\ WebIdle

\* One call generate_embeddings(ge_texts, ge_batch_size)
CallGenerateEmbeddings ==
    /\ ge_pc = "input"
    /\ \E load_ok \in BOOLEAN, encode_ok \in BOOLEAN :
          /\ embedding_model' = ModelAfterGet(embedding_model, load_ok)
          /\ model_loads' = LoadsAfterGet(embedding_model, model_loads, load_ok)
          /\ ge_result' = generate_embeddings(ge_texts, ge_batch_size,
                                              embedding_model', encode_ok)
    /\ ge_pc' = "done"
    /\ UNCHANGED <<ge_texts, ge_batch_size, chunk_vars, index_vars, pipe_vars>>
    /\ UNCHANGED <<setup_result, query_vars>>
    /\ UNCHANGED web_vars

\* One call get_embedding_model(), as the first call of the process or
\* after a generate_embeddings call
CallGetEmbeddingModel ==
    /\ ge_pc \in {"input", "done"}
    /\ \E load_ok \in BOOLEAN :
          /\ embedding_model' = ModelAfterGet(embedding_model, load_ok)
          /\ model_loads' = LoadsAfterGet(embedding_model, model_loads, load_ok)
          /\ ge_pc' = IF LoadAttempted(embedding_model) /\ ~load_ok
                      THEN "get_raised" ELSE "got"
    /\ UNCHANGED <<ge_texts, ge_batch_size, ge_result, chunk_vars, index_vars,
                   pipe_vars, setup_result, query_vars>>
    /\ UNCHANGED web_vars

\* The caller prepares the next call (the process goes on, the model stays)
NextEmbedCall ==
    /\ ge_pc \in {"done", "got", "get_raised"}
    /\ ge_pc' = "input"
    /\ ge_texts' \in SeqsUpTo(EmbedTexts, MaxTexts)
    /\ ge_batch_size' \in 1..MaxBatchSize
    /\ ge_result' = [status |-> "none", value |-> <<>>]
    /\ UNCHANGED <<embedding_model, chunk_vars, index_vars, pipe_vars>>
    /\ UNCHANGED <<setup_result, model_loads, query_vars>>
    /\ UNCHANGED web_vars

EmbedNext == CallGenerateEmbeddings \/ CallGetEmbeddingModel \/ NextEmbedCall

SpecEmbed == EmbedInit /\ [][EmbedNext]_vars

\* C6: for every list of texts and every batch size of at least 1, a
\* generate_embeddings call that returns gives exactly one vector per input
\* text, in input order, equal to embedding the whole list at once; an empty
\* list gives an empty list.
C6_OneVectorPerText ==
    (ge_pc = "done" /\ ge_result.status = "returned") =>
        /\ Len(ge_result.value) = Len(ge_texts)
        /\ \A i \in 1..Len(ge_texts) : ge_result.value[i] = Embed(ge_texts[i])
        /\ ge_result.value = Encode(ge_texts)
        /\ (ge_texts = <<>> => ge_result.value = <<>>)

\* A list that needs several batches, the last one partial, has been embedded.
C6_Witness ==
    /\ ge_pc = "done"
    /\ ge_result.status = "returned"
    /\ NumBatches(Len(ge_texts), ge_batch_size) >= 2
    /\ Len(ge_texts) % ge_batch_size # 0
    /\ \E i, j \in 1..Len(ge_texts) : ge_texts[i] # ge_texts[j]

\* A step that is one call of generate_embeddings or get_embedding_model
EmbedCallStep == ge_pc' \in {"done", "got", "get_raised"} /\ ge_pc' # ge_pc

\* The call of an EmbedCallStep raised to its caller
EmbedCallRaised ==
    \/ ge_pc' = "get_raised"
    \/ ge_pc' = "done" /\ ge_result'.status = "raised"

\* C20: within one process, over any sequence of generate_embeddings and
\* get_embedding_model calls, the model is constructed at most once: a call
\* that finds no model and whose load succeeds sets it, every call that finds
\* the model keeps that instance and constructs nothing, and a call whose
\* load fails raises and leaves the model unset.
C20_ModelLoadedOnce ==
    [][EmbedCallStep =>
         /\ model_loads' <= 1
         /\ (model_loads' = 1) <=> (embedding_model' = "loaded")
         /\ embedding_model = "loaded" =>
                embedding_model' = "loaded" /\ model_loads' = model_loads
         /\ embedding_model = "None" =>
                \/ embedding_model' = "loaded" /\ model_loads' = 1
                \/ embedding_model' = "None" /\ EmbedCallRaised]_vars

\* get_embedding_model has returned the model after an earlier
\* generate_embeddings call of the process had loaded it and returned.
C20_Witness ==
    /\ ge_pc = "got"
    /\ ge_result.status = "returned"
    /\ ge_texts # <<>>
    /\ embedding_model = "loaded"
    /\ model_loads = 1

(***************************************************************************)
(* The vector index (vector_indexer.py:79-237).  A source is a sequence of *)
(* characters, so that the LIKE pattern of delete_documents_by_source is   *)
(* evaluated and not assumed.  A document is a record [id, text, source,   *)
(* type, py_type]: source and type stand for metadata.source and           *)
(* metadata.type of a schemas.Document, py_type for the Python type of the *)
(* value, which decides whether the attribute reads of index_documents     *)
(* succeed.                                                                *)
(***************************************************************************)
INDEX_BATCH_SIZE == 50
DEFAULT_BATCH_SIZE == 32

\* Milvus LIKE: % matches any sequence of characters, _ any one character.
RECURSIVE Like(_, _)
Like(str, pat) ==
    IF pat = <<>> THEN str = <<>>
    ELSE IF Head(pat) = "%"
         THEN Like(str, Tail(pat)) \/ (str # <<>> /\ Like(Tail(str), pat))
         ELSE /\ str # <<>>
              /\ (Head(pat) = "_" \/ Head(pat) = Head(str))
              /\ Like(Tail(str), Tail(pat))

\* DeleteExpr that only matches what lies below the source ('{source}_%')
DeleteExpr_ChildrenOnly(source) == source \o <<"_", "%">>

\* line 227: expr = f"source like '{source}%'"
DeleteExpr(source) == source \o <<"%">>

\* lines 228-231: collection.delete(expr); collection.flush()
DeleteRows(rows, source) ==
    SelectSeq(rows, LAMBDA r : ~Like(r.source, DeleteExpr(source)))

\* line 168: doc.metadata.json(), the metadata of the document serialised
MetadataJson(doc) == [source |-> doc.source, type |-> doc.type, server |-> doc.server]

\* line 171: doc.metadata.server if doc.metadata.server else ""
ServerField(doc) == IF doc.server = "None" THEN "" ELSE doc.server

\* BatchRows that takes the embeddings of a batch in reverse
BatchRows_Reversed(batch, embeddings) ==
    [i \in 1..Len(batch) |->
        [id |-> batch[i].id, text |-> batch[i].text,
         metadata |-> MetadataJson(batch[i]), source |-> batch[i].source,
         type |-> batch[i].type, server |-> ServerField(batch[i]),
         embedding |-> embeddings[Len(batch) + 1 - i]]]

\* lines 166-182: the rows of one batch, column i of every list from document i
BatchRows(batch, embeddings) ==
    [i \in 1..Len(batch) |->
        [id |-> batch[i].id, text |-> batch[i].text,
         metadata |-> MetadataJson(batch[i]), source |-> batch[i].source,
         type |-> batch[i].type, server |-> ServerField(batch[i]),
         embedding |-> embeddings[i]]]

\* lines 159-171 read doc.text, doc.id and doc.metadata: a schemas.Document
\* has these attributes, a dict has not and the read raises AttributeError.
HasAttributes(doc) == doc.py_type = "Document"

\* the number of the first batch that holds a value without the attributes
\* (0: there is none); i is the offset of the batch, k its number.
RECURSIVE FirstBadBatch(_, _, _)
FirstBadBatch(documents, i, k) ==
    IF i >= Len(documents) THEN 0
    ELSE LET batch == BatchAt(documents, i, INDEX_BATCH_SIZE)
         IN  IF \E j \in 1..Len(batch) : ~HasAttributes(batch[j])
             THEN k
             ELSE FirstBadBatch(documents, i + INDEX_BATCH_SIZE, k + 1)

\* lines 155-185: the batches before fail_batch are embedded and inserted
\* (fail_batch = 0: none fails); i is the offset of the batch, k its number.
RECURSIVE InsertBatches(_, _, _, _, _)
InsertBatches(rows, documents, i, k, fail_batch) ==
    IF i >= Len(documents) \/ k = fail_batch THEN rows
    ELSE LET batch == BatchAt(documents, i, INDEX_BATCH_SIZE)
             texts == [j \in 1..Len(batch) |-> batch[j].text]
             embeddings == generate_embeddings(texts, DEFAULT_BATCH_SIZE,
                                               "loaded", TRUE).value
         IN  InsertBatches(rows \o BatchRows(batch, embeddings), documents,
                           i + INDEX_BATCH_SIZE, k + 1, fail_batch)

\* index_documents(documents) (lines 125-204) on the index ix = [exists,
\* has_index, rows] with the embedding model as it is.  connect_ok:
\* connections.connect succeeds; load_ok: the embedding model loads if it has
\* to; fail_batch: the batch whose embedding or insert raises (0: none; one
\* more than the number of batches: the flush or the index creation raises).
\* A batch that holds a dict raises at line 159, before it is embedded; the
\* embedding model is loaded by the first batch that is embedded.
\* failed_batch is the number of the batch that raised (0: none did).
index_documents(documents, ix, model, connect_ok, load_ok, fail_batch) ==
    IF documents = <<>>
    THEN [rows |-> ix.rows, has_index |-> ix.has_index, model |-> model,
          status |-> "returned", failed_batch |-> 0]
    ELSE IF ~connect_ok \/ ~ix.exists
    THEN [rows |-> ix.rows, has_index |-> ix.has_index, model |-> model,
          status |-> "raised", failed_batch |-> 0]
    ELSE LET bad    == FirstBadBatch(documents, 0, 1)
             loaded == IF bad = 1 THEN model ELSE ModelAfterGet(model, load_ok)
             fail   == IF bad = 1 \/ loaded = "None" THEN 1
                       ELSE IF bad # 0 /\ (fail_batch = 0 \/ fail_batch > bad) THEN bad
                       ELSE fail_batch
         IN  [rows      |-> InsertBatches(ix.rows, documents, 0, 1, fail),
              has_index |-> (ix.has_index \/ fail = 0),
              model     |-> loaded,
              status    |-> IF fail = 0 THEN "returned" ELSE "raised",
              failed_batch |-> fail]

TheIndex == [exists |-> coll_exists, has_index |-> coll_has_index, rows |-> coll_rows]

\* The sources and documents the index operations are called with
Sources == {<<"a">>, <<"a", "b">>, <<"b">>, <<"a", "_">>}

\* a schemas.Document whose metadata names a server
DocOn(id, text, source, type, server) ==
    [id |-> id, text |-> text, source |-> source, type |-> type,
     server |-> server, py_type |-> "Document"]

\* a schemas.Document whose metadata.server is None
Doc(id, text, source, type) == DocOn(id, text, source, type, "None")

DocA1 == Doc(1, <<W(20)>>, <<"a">>, "item")
DocA2 == Doc(2, <<W(500)>>, <<"a">>, "item")
DocAB == Doc(3, <<W(20)>>, <<"a", "b">>, "zone")
DocB  == DocOn(4, <<W(20)>>, <<"b">>, "zone", "s1")

\* one document more than a batch of index_documents holds
ManyDocs ==
    [i \in 1..(INDEX_BATCH_SIZE + 1) |->
        Doc(10 + i, IF i % 2 = 0 THEN <<W(20)>> ELSE <<W(500)>>, <<"b">>, "zone")]

DocLists ==
    {<<>>, <<DocA1>>, <<DocA2>>, <<DocA1, DocA2>>, <<DocAB>>, <<DocB, DocA1>>}

\* lists that fill one batch of index_documents and lists that need two
BatchDocLists == {<<DocA1, DocA2>>, <<DocB, DocA1>>, ManyDocs}

\* The last three calls are kept
Remember(hist, call) ==
    IF Len(hist) < 3 THEN Append(hist, call) ELSE Append(Tail(hist), call)

IndexInit ==
    /\ ChunkIdle
    /\ processed = <<>>
    /\ embedding_model = "None"
    /\ model_loads = 0
    /\ EmbedIdle
    /\ IndexIdle
    /\ PipeIdle
    /\ QueryIdle
    /\ WebIdle

\* setup_vector_collection (lines 79-123).  connect_ok: connections.connect
\* succeeds; index_ok: collection.create_index succeeds.
CallSetupVectorCollection ==
    /\ \E connect_ok \in BOOLEAN, index_ok \in BOOLEAN :
          IF ~connect_ok
          THEN /\ setup_result' = "raised"
               /\ UNCHANGED <<coll_exists, coll_has_index>>
          ELSE IF coll_exists
          THEN /\ setup_result' = "returned"
               /\ UNCHANGED <<coll_exists, coll_has_index>>
          ELSE /\ coll_exists' = TRUE
               /\ coll_has_index' = index_ok
               /\ setup_result' = IF index_ok THEN "returned" ELSE "raised"
    /\ UNCHANGED <<coll_rows, ix_hist, ix_count, chunk_vars, embed_vars, pipe_vars>>
    /\ UNCHANGED <<model_loads, query_vars>>
    /\ UNCHANGED web_vars

\* One call index_documents(documents)
CallIndexDocuments(documents) ==
    /\ ix_count < MaxOps
    /\ ix_count' = ix_count + 1
    /\ \E connect_ok \in BOOLEAN, load_ok \in BOOLEAN,
          fail_batch \in 0..(NumBatches(Len(documents), INDEX_BATCH_SIZE) + 1) :
          LET res == index_documents(documents, TheIndex, embedding_model,
                                     connect_ok, load_ok, fail_batch)
          IN  /\ coll_rows' = res.rows
              /\ coll_has_index' = res.has_index
              /\ embedding_model' = res.model
              /\ model_loads' = LoadsAfter(embedding_model, res.model, model_loads)
              /\ ix_hist' = Remember(ix_hist, [op |-> "index", arg |-> documents,
                                               status |-> res.status,
                                               failed_batch |-> res.failed_batch])
    /\ UNCHANGED <<coll_exists, chunk_vars, ge_pc, ge_texts, ge_batch_size,
                   ge_result, pipe_vars>>
    /\ UNCHANGED <<setup_result, query_vars>>
    /\ UNCHANGED web_vars

\* delete_documents_by_source(source) (lines 206-237)
CallDeleteDocumentsBySource(source) ==
    /\ ix_count < MaxOps
    /\ ix_count' = ix_count + 1
    /\ \E connect_ok \in BOOLEAN :
          IF ~connect_ok \/ ~coll_exists
          THEN /\ ix_hist' = Remember(ix_hist, [op |-> "delete", arg |-> source, status |-> "raised"])
               /\ UNCHANGED coll_rows
          ELSE /\ coll_rows' = DeleteRows(coll_rows, source)
               /\ ix_hist' = Remember(ix_hist, [op |-> "delete", arg |-> source, status |-> "returned"])
    /\ UNCHANGED <<coll_exists, coll_has_index, chunk_vars, embed_vars, pipe_vars>>
    /\ UNCHANGED <<setup_result, model_loads, query_vars>>
    /\ UNCHANGED web_vars

IndexNext ==
    \/ CallSetupVectorCollection
    \/ \E documents \in DocLists : CallIndexDocuments(documents)
    \/ \E source \in Sources : CallDeleteDocumentsBySource(source)

SpecIndex == IndexInit /\ [][IndexNext]_vars

\* index_documents alone, called with lists of one and of two batches
BatchNext ==
    \/ CallSetupVectorCollection
    \/ \E documents \in BatchDocLists : CallIndexDocuments(documents)

SpecBatch == IndexInit /\ [][BatchNext]_vars

RowsOfSource(rows, source) == SelectSeq(rows, LAMBDA r : r.source = source)

Ids(seq) == [i \in 1..Len(seq) |-> seq[i].id]

AllOfSource(documents, source) ==
    \A i \in 1..Len(documents) : documents[i].source = source

\* The last three calls were index_documents(A), delete_documents_by_source(s)
\* and index_documents(B), all returned, A and B being documents of source s.
ReingestScenario ==
    /\ Len(ix_hist) = 3
    /\ \A i \in 1..3 : ix_hist[i].status = "returned"
    /\ ix_hist[1].op = "index" /\ ix_hist[2].op = "delete" /\ ix_hist[3].op = "index"
    /\ ix_hist[1].arg # <<>>
    /\ AllOfSource(ix_hist[1].arg, ix_hist[2].arg)
    /\ AllOfSource(ix_hist[3].arg, ix_hist[2].arg)

\* C8: after index_documents(A), delete_documents_by_source(s) and
\* index_documents(B) on documents of source s, the index holds for s exactly
\* the documents of B: no entry of the first run remains, none is duplicated.
C8_IdempotentReingest ==
    ReingestScenario =>
        LET kept == RowsOfSource(coll_rows, ix_hist[2].arg)
        IN  /\ Ids(kept) = Ids(ix_hist[3].arg)
            /\ \A i \in 1..Len(kept) : kept[i].embedding = Embed(kept[i].text)

\* The scenario has happened with a second set that differs from the first,
\* while entries of another source were in the index.
C8_Witness ==
    /\ ReingestScenario
    /\ ix_hist[3].arg # <<>>
    /\ Ids(ix_hist[3].arg) # Ids(ix_hist[1].arg)
    /\ Len(ix_hist[1].arg) = 2

\* the last call made
LastCall == ix_hist[Len(ix_hist)]

\* the number of the batch that holds document j of a list
BatchOf(j) == ((j - 1) \div INDEX_BATCH_SIZE) + 1

\* index_documents was just called and one of its batches raised
BatchFailed ==
    /\ ix_hist # <<>>
    /\ LastCall.op = "index"
    /\ LastCall.failed_batch \in 1..NumBatches(Len(LastCall.arg), INDEX_BATCH_SIZE)

\* C13: when one batch of an index_documents call fails, the documents of
\* every other batch of the call, before and after it, are in the index and
\* the call does not raise.
C13_OnlyFailingBatchAbandoned ==
    BatchFailed =>
        /\ LastCall.status = "returned"
        /\ \A j \in 1..Len(LastCall.arg) :
               BatchOf(j) # LastCall.failed_batch =>
                   \E i \in 1..Len(coll_rows) : coll_rows[i].id = LastCall.arg[j].id

\* str starts with the string prefix
StartsWith(str, prefix) ==
    /\ Len(prefix) <= Len(str)
    /\ SubSeq(str, 1, Len(prefix)) = prefix

\* the step is a call of delete_documents_by_source that returns
DeleteReturns ==
    /\ ix_count' = ix_count + 1
    /\ LastCall'.op = "delete"
    /\ LastCall'.status = "returned"

\* C17: delete_documents_by_source(p) removes exactly the entries whose
\* source starts with p, whatever characters p contains: every other entry
\* is still there, unchanged and in its place.
C17_DeleteExactlyPrefix ==
    [][DeleteReturns =>
          coll_rows' = SelectSeq(coll_rows,
                                 LAMBDA r : ~StartsWith(r.source, LastCall'.arg))]_vars

\* the step is a call of index_documents
IndexCall ==
    /\ ix_count' = ix_count + 1
    /\ LastCall'.op = "index"

\* the number of documents of a call that were inserted: all of them when no
\* batch raised, those of the batches before the one that raised otherwise
Inserted(call) ==
    IF call.failed_batch = 0
    THEN IF call.status = "returned" THEN Len(call.arg) ELSE 0
    ELSE IF call.failed_batch > NumBatches(Len(call.arg), INDEX_BATCH_SIZE)
    THEN Len(call.arg)
    ELSE (call.failed_batch - 1) * INDEX_BATCH_SIZE

\* the row that belongs to a document
RowOf(doc) ==
    [id |-> doc.id, text |-> doc.text,
     metadata |-> [source |-> doc.source, type |-> doc.type, server |-> doc.server],
     source |-> doc.source, type |-> doc.type,
     server |-> IF doc.server = "None" THEN "" ELSE doc.server,
     embedding |-> Embed(doc.text)]

\* C19: index_documents appends the rows of its documents in the order the
\* documents were given, batch after batch, and every field of a row,
\* the embedding included, comes from the one document the row is for.
C19_RowsInOrderAndAligned ==
    [][IndexCall =>
          coll_rows' = coll_rows \o
              [j \in 1..Inserted(LastCall') |-> RowOf(LastCall'.arg[j])]]_vars

\* A call has inserted more documents than one batch holds, of differing
\* texts, behind rows that were there before.
C19_Witness ==
    /\ ix_hist # <<>>
    /\ LastCall.op = "index"
    /\ LastCall.status = "returned"
    /\ Len(LastCall.arg) > INDEX_BATCH_SIZE
    /\ \E i, j \in 1..Len(LastCall.arg) : LastCall.arg[i].text # LastCall.arg[j].text
    /\ Len(coll_rows) > Len(LastCall.arg)

\* C18: setup_vector_collection is idempotent, and whenever a call to it has
\* returned normally (also a call that follows one which failed between
\* creating the collection and creating the index) the collection exists
\* and has its vector index.
C18_SetupLeavesIndexedCollection ==
    setup_result = "returned" => coll_exists /\ coll_has_index

(***************************************************************************)
(* Retrieval: query_vector_store of the backend (vector_store.py:34-144)   *)
(* and query_similar_documents of the pipeline (vector_indexer.py:239-319).*)
(* Both read the collection the index operations above write.  A filter    *)
(* value and a search expression are sequences of lexical tokens (words,   *)
(* quotes, operators): the expression is built by pasting the value        *)
(* between quotes, as the f-strings do, and evaluated by reading it back   *)
(* as the index backend does, so that a value is never assumed to come     *)
(* back as the literal it went in as.                                      *)
(***************************************************************************)
DQ == "\""
SQ == "'"
Quotes == {DQ, SQ}
Fields == {"type", "server"}

\* A VARCHAR field value as a sequence of tokens: "" is the empty string
StrOf(value) == IF value = "" THEN <<>> ELSE <<value>>

\* vector_store.py:105,108 / vector_indexer.py:280,283:
\*   f'type == "{filters["type"]}"'  and  f"type == '{filters['type']}'"
FieldPredicate(field, value, quote) == <<field, "==", quote>> \o value \o <<quote>>

\* vector_store.py:104,107 / vector_indexer.py:279,282
HasFilter(filters, key) == key \in DOMAIN filters /\ filters[key] # <<>>

\* vector_store.py:101-114 / vector_indexer.py:276-288: the expression, <<>>
\* standing for expr = None
FilterExpr(filters, quote) ==
    LET t == IF HasFilter(filters, "type")
             THEN <<FieldPredicate("type", filters["type"], quote)>> ELSE <<>>
        s == IF HasFilter(filters, "server")
             THEN <<FieldPredicate("server", filters["server"], quote)>> ELSE <<>>
        parts == t \o s
    IN  IF Len(parts) = 0 THEN <<>>
        ELSE IF Len(parts) = 1 THEN parts[1]
        ELSE parts[1] \o <<"&&">> \o parts[2]

\* The index backend's reading of an expression: the segments of toks between
\* the occurrences of sep that stand outside string literals.  quote is the
\* quote of the literal position i is in, "" outside literals.
RECURSIVE SplitOutside(_, _, _, _, _)
SplitOutside(toks, sep, i, start, quote) ==
    IF i > Len(toks) THEN <<SubSeq(toks, start, Len(toks))>>
    ELSE IF quote # "" THEN
        SplitOutside(toks, sep, i + 1, start, IF toks[i] = quote THEN "" ELSE quote)
    ELSE IF toks[i] \in Quotes THEN SplitOutside(toks, sep, i + 1, start, toks[i])
    ELSE IF toks[i] = sep THEN
        <<SubSeq(toks, start, i - 1)>> \o SplitOutside(toks, sep, i + 1, i + 1, "")
    ELSE SplitOutside(toks, sep, i + 1, start, "")

\* One comparison  field == 'literal'  or  field == "literal"
IsPredicate(toks) ==
    /\ Len(toks) >= 4
    /\ toks[1] \in Fields
    /\ toks[2] = "=="
    /\ toks[3] \in Quotes
    /\ toks[Len(toks)] = toks[3]
    /\ \A k \in 4..(Len(toks) - 1) : toks[k] # toks[3]

PredicateHolds(toks, row) ==
    StrOf(row[toks[1]]) = SubSeq(toks, 4, Len(toks) - 1)

\* The disjuncts of an expression, each a sequence of conjuncts (&& binds
\* tighter than ||)
Disjuncts(expr) ==
    LET ors == SplitOutside(expr, "||", 1, 1, "")
    IN  [k \in 1..Len(ors) |-> SplitOutside(ors[k], "&&", 1, 1, "")]

WellFormed(expr) ==
    \/ expr = <<>>
    \/ LET d == Disjuncts(expr)
       IN  \A k \in 1..Len(d) : \A l \in 1..Len(d[k]) : IsPredicate(d[k][l])

ExprHolds(expr, row) ==
    \/ expr = <<>>
    \/ LET d == Disjuncts(expr)
       IN  \E k \in 1..Len(d) : \A l \in 1..Len(d[k]) : PredicateHolds(d[k][l], row)

\* The similarity of two embeddings (higher is closer): equal texts are
\* closest, other texts by the difference of their lengths
Score(query_embedding, embedding) ==
    LET a == TextLen(query_embedding.embedding_of)
        b == TextLen(embedding.embedding_of)
    IN  IF query_embedding = embedding THEN 2000
        ELSE 1999 - (IF a >= b THEN a - b ELSE b - a)

\* hits in descending score, rows of equal score in insertion order
RECURSIVE InsertHit(_, _)
InsertHit(hits, hit) ==
    IF hits = <<>> THEN <<hit>>
    ELSE IF hit.score > Head(hits).score THEN <<hit>> \o hits
    ELSE <<Head(hits)>> \o InsertHit(Tail(hits), hit)

RECURSIVE RankedHits(_, _, _)
RankedHits(rows, expr, query_embedding) ==
    IF rows = <<>> THEN <<>>
    ELSE LET r == rows[Len(rows)]
             rest == RankedHits(SubSeq(rows, 1, Len(rows) - 1), expr, query_embedding)
         IN  IF ExprHolds(expr, r)
             THEN InsertHit(rest, [entity |-> r, score |-> Score(query_embedding, r.embedding)])
             ELSE rest

\* collection.search(data=[query_embedding], limit=limit, expr=expr): the
\* best `limit` hits of the rows the expression holds for
Search(rows, expr, query_embedding, limit) ==
    LET hits == RankedHits(rows, expr, query_embedding)
    IN  SubSeq(hits, 1, Min(limit, Len(hits)))

\* vector_store.py:131-142 / vector_indexer.py:301-313: one dict per hit
FormatHits(hits) ==
    [i \in 1..Len(hits) |->
        [id |-> hits[i].entity.id, text |-> hits[i].entity.text,
         metadata |-> hits[i].entity.metadata, source |-> hits[i].entity.source,
         type |-> hits[i].entity.type, server |-> hits[i].entity.server,
         score |-> hits[i].score]]

\* The step of a retrieval call at which the index backend or the model
\* fails: connecting, loading the collection, constructing the model,
\* encoding the query, searching; "none" when every step succeeds
Faults == {"none", "connect", "load", "model", "encode", "search"}

\* What a retrieval call gives its caller
Returned(value) == [status |-> "returned", value |-> value]
Raised == [status |-> "raised", value |-> <<>>]

\* get_vector_store that keeps what it found when the collection was absent
get_vector_store_Remember(store, exists, connect_ok, load_ok) ==
    IF store # "None" THEN [store |-> store, status |-> "returned"]
    ELSE IF ~connect_ok THEN [store |-> "None", status |-> "raised"]
    ELSE IF ~exists THEN [store |-> "Absent", status |-> "returned"]
    ELSE [store |-> "Collection",
          status |-> IF load_ok THEN "returned" ELSE "raised"]

\* vector_store.py:34-61: [store, status] of get_vector_store(); the global
\* is assigned before load() is called on it
get_vector_store(store, exists, connect_ok, load_ok) ==
    IF store # "None" THEN [store |-> store, status |-> "returned"]
    ELSE IF ~connect_ok THEN [store |-> "None", status |-> "raised"]
    ELSE IF ~exists THEN [store |-> "None", status |-> "returned"]
    ELSE [store |-> "Collection",
          status |-> IF load_ok THEN "returned" ELSE "raised"]

\* vector_store.py:63-144: [store, model, failed, expr, out] of
\* query_vector_store(query, limit, filters)
query_vector_store(query, limit, filters, store, model, index, fault) ==
    LET search_ok == fault # "search"
        got   == get_vector_store(store, index.exists, fault # "connect",
                                  fault # "load")
        m     == ModelAfterGet(model, fault # "model")
        emb   == generate_embeddings(<<query>>, DEFAULT_BATCH_SIZE, m,
                                     fault # "encode")
        expr  == FilterExpr(filters, DQ)
    IN  IF got.status = "raised" THEN
            [store |-> got.store, model |-> model, expr |-> <<>>,
             failed |-> fault, out |-> Returned(<<>>)]
        ELSE IF got.store = "None" THEN
            [store |-> got.store, model |-> model, expr |-> <<>>,
             failed |-> "none", out |-> Returned(<<>>)]
        ELSE IF emb.status = "raised" THEN
            [store |-> got.store, model |-> m, expr |-> <<>>,
             failed |-> "embed", out |-> Returned(<<>>)]
        ELSE IF ~search_ok \/ ~WellFormed(expr) THEN
            [store |-> got.store, model |-> m, expr |-> expr,
             failed |-> IF search_ok THEN "expr" ELSE "search",
             out |-> Returned(<<>>)]
        ELSE
            [store |-> got.store, model |-> m, expr |-> expr, failed |-> "none",
             out |-> Returned(FormatHits(Search(index.rows, expr, emb.value[1], limit)))]

\* vector_indexer.py:239-319: [model, failed, expr, out] of
\* query_similar_documents(query_text, limit, filters); Collection(name)
\* raises when the collection does not exist
query_similar_documents(query_text, limit, filters, model, index, fault) ==
    LET connect_ok == fault # "connect"
        load_ok == fault # "load"
        search_ok == fault # "search"
        m     == ModelAfterGet(model, fault # "model")
        emb   == generate_embeddings(<<query_text>>, DEFAULT_BATCH_SIZE, m,
                                     fault # "encode")
        expr  == FilterExpr(filters, SQ)
    IN  IF ~connect_ok THEN
            [model |-> model, expr |-> <<>>, failed |-> "connect", out |-> Raised]
        ELSE IF ~index.exists THEN
            [model |-> model, expr |-> <<>>, failed |-> "absent", out |-> Raised]
        ELSE IF ~load_ok THEN
            [model |-> model, expr |-> <<>>, failed |-> "load", out |-> Raised]
        ELSE IF emb.status = "raised" THEN
            [model |-> m, expr |-> <<>>, failed |-> "embed", out |-> Raised]
        ELSE IF ~search_ok \/ ~WellFormed(expr) THEN
            [model |-> m, expr |-> expr,
             failed |-> IF search_ok THEN "expr" ELSE "search", out |-> Raised]
        ELSE
            [model |-> m, expr |-> expr, failed |-> "none",
             out |-> Returned(FormatHits(Search(index.rows, expr, emb.value[1], limit)))]

\* The inputs of the retrieval calls
QueryTexts == {<<W(20)>>, <<W(500), SP, W(20)>>}

Limits == 1..MaxLimit

\* filters=None and {} are the empty map; a value is a string of tokens
FiltersOf(type, server) ==
    [k \in ({"type"} \cap (IF type = <<"absent">> THEN {} ELSE {"type"}))
            \cup ({"server"} \cap (IF server = <<"absent">> THEN {} ELSE {"server"}))
        |-> IF k = "type" THEN type ELSE server]


\* server names as a user of the chat endpoint may give them
\* (llm_service.py:60): s1, O'Neil, and names that hold a quote and operators
ServerValues ==
    {<<"s1">>, <<"O", SQ, "Neil">>,
     <<"s1", DQ, "||", "type", "==", DQ, "zone">>,
     <<"s1", SQ, "||", "type", "==", SQ, "zone">>}

FilterMaps ==
    {FiltersOf(<<"absent">>, <<"absent">>), FiltersOf(<<>>, <<"absent">>),
     FiltersOf(<<"zone">>, <<"absent">>), FiltersOf(<<"zone">>, <<"s1">>)}
    \cup {FiltersOf(<<"absent">>, s) : s \in ServerValues}

\* the documents the collection is filled with before it is queried
QueryDocs == <<DocB, DocAB, DocA2>>

CallQueryVectorStore ==
    /\ q_last = NoQuery
    /\ \E query \in QueryTexts, limit \in Limits, filters \in FilterMaps,
       fault \in Faults :
        LET res == query_vector_store(query, limit, filters, vs_store, vs_model,
                                      TheIndex, fault)
        IN  /\ vs_store' = res.store
            /\ vs_model' = res.model
            /\ vs_absent_seen' =
                  (vs_absent_seen
                   \/ (vs_store = "None" /\ fault # "connect" /\ ~coll_exists))
            /\ q_last' = [fn |-> "query_vector_store", query |-> query,
                          limit |-> limit, filters |-> filters,
                          existed |-> coll_exists, failed |-> res.failed,
                          expr |-> res.expr, status |-> res.out.status,
                          value |-> res.out.value]
            /\ UNCHANGED <<chunk_vars, embed_vars, index_vars, pipe_vars,
                           setup_result, model_loads>>
    /\ UNCHANGED web_vars

CallQuerySimilarDocuments ==
    /\ q_last = NoQuery
    /\ \E query_text \in QueryTexts, limit \in Limits, filters \in FilterMaps,
       fault \in Faults :
        LET res == query_similar_documents(query_text, limit, filters,
                                           embedding_model, TheIndex, fault)
        IN  /\ embedding_model' = res.model
            /\ model_loads' = LoadsAfter(embedding_model, res.model, model_loads)
            /\ q_last' = [fn |-> "query_similar_documents", query |-> query_text,
                          limit |-> limit, filters |-> filters,
                          existed |-> coll_exists, failed |-> res.failed,
                          expr |-> res.expr, status |-> res.out.status,
                          value |-> res.out.value]
            /\ UNCHANGED <<chunk_vars, ge_pc, ge_texts, ge_batch_size, ge_result,
                           index_vars, pipe_vars, setup_result, vs_store, vs_model,
                           vs_absent_seen>>
    /\ UNCHANGED web_vars

\* The caller takes the result; the process goes on to its next call
NextQuery ==
    /\ q_last # NoQuery
    /\ q_last' = NoQuery
    /\ UNCHANGED <<chunk_vars, embed_vars, index_vars, pipe_vars, setup_result,
                   model_loads, vs_store, vs_model, vs_absent_seen>>
    /\ UNCHANGED web_vars

\* The pipeline fills the collection once
FillCollection == ix_count = 0 /\ CallIndexDocuments(QueryDocs)

QueryNext ==
    \/ CallSetupVectorCollection
    \/ FillCollection
    \/ CallQueryVectorStore
    \/ CallQuerySimilarDocuments
    \/ NextQuery

SpecQuery == IndexInit /\ [][QueryNext]_vars

\* The last retrieval call
Queried == q_last.fn # "none"

\* C14: a retrieval call made while the collection has never been created
\* returns an empty sequence and raises no error, for every query text, limit
\* and filter and for both entry points.
C14_AbsentCollectionGivesEmpty ==
    (Queried /\ ~q_last.existed) =>
        q_last.status = "returned" /\ q_last.value = <<>>

\* The expression the specification states for a filters map: one equality
\* per key with a non-empty value, the value as its literal
StatedHolds(filters, result) ==
    /\ HasFilter(filters, "type") => StrOf(result.type) = filters["type"]
    /\ HasFilter(filters, "server") => StrOf(result.server) = filters["server"]

\* C15: every result of a retrieval call has the requested type and the
\* requested server, for each of the two keys that has a non-empty value,
\* and the results are in descending score.
C15_ResultsMatchFilters ==
    (Queried /\ q_last.status = "returned") =>
        /\ \A i \in 1..Len(q_last.value) : StatedHolds(q_last.filters, q_last.value[i])
        /\ \A i \in 1..(Len(q_last.value) - 1) :
              q_last.value[i].score >= q_last.value[i + 1].score

\* A step that is one query_vector_store call
QueryVectorStoreStep ==
    q_last = NoQuery /\ q_last' # NoQuery /\ q_last'.fn = "query_vector_store"

\* C29: the backend does not remember that the collection was absent.  A
\* query_vector_store call made after an earlier call of the process found
\* no collection, the collection existing now and no step failing, connects
\* to the collection and returns what the search over its rows gives.
C29_AbsenceNotRemembered ==
    [][(QueryVectorStoreStep /\ vs_absent_seen /\ coll_exists
          /\ q_last'.failed = "none") =>
         /\ vs_store' = "Collection"
         /\ q_last'.value =
              FormatHits(Search(coll_rows, FilterExpr(q_last'.filters, DQ),
                                Embed(q_last'.query), q_last'.limit))]_vars

\* A query_vector_store call has returned entries in a process whose earlier
\* call found no collection.
C29_Witness ==
    /\ Queried
    /\ q_last.fn = "query_vector_store"
    /\ vs_absent_seen
    /\ q_last.value # <<>>

\* C16: a search during which connecting, loading the collection, embedding
\* the query or executing the search fails returns an empty result to its
\* caller instead of raising.
C16_FailedSearchGivesEmpty ==
    (Queried /\ q_last.existed /\ q_last.failed \in {"connect", "load", "embed", "search"}) =>
        q_last.status = "returned" /\ q_last.value = <<>>

(***************************************************************************)
(* The session middleware of the backend (backend/app/core/session.py).   *)
(* A session id and a header value are sequences of characters; a header  *)
(* is [present, value].  generate_session_id draws 24 random hex          *)
(* characters: the model lets it return any of GeneratedIds.              *)
(***************************************************************************)
SESSION_PREFIX == <<"s", "e", "s", "s", "_">>

HexChars ==
    {"0", "1", "2", "3", "4", "5", "6", "7", "8", "9", "a", "b", "c", "d", "e", "f"}

\* token_hex(12) is 24 characters; the pattern asks for {24}
TokenHexLen == 24

SessionIdLen == Len(SESSION_PREFIX) + TokenHexLen

Rep(c, n) == [i \in 1..n |-> c]

GeneratedIds ==
    {SESSION_PREFIX \o Rep("a", TokenHexLen),
     SESSION_PREFIX \o [i \in 1..TokenHexLen |-> IF i % 2 = 1 THEN "0" ELSE "9"]}

\* a validation that looks at the prefix only
validate_session_id_AnyTail(s) ==
    /\ Len(s) >= Len(SESSION_PREFIX)
    /\ SubSeq(s, 1, Len(SESSION_PREFIX)) = SESSION_PREFIX

\* lines 17, 25-27: SESSION_PATTERN.match(session_id); `$` also matches
\* before one trailing newline
validate_session_id(s) ==
    /\ Len(s) \in {SessionIdLen, SessionIdLen + 1}
    /\ SubSeq(s, 1, Len(SESSION_PREFIX)) = SESSION_PREFIX
    /\ \A i \in (Len(SESSION_PREFIX) + 1)..SessionIdLen : s[i] \in HexChars
    /\ Len(s) = SessionIdLen + 1 => s[SessionIdLen + 1] = "\n"

Absent == [present |-> FALSE, value |-> <<>>]

Present(s) == [present |-> TRUE, value |-> s]

\* lines 49-66: request.state.session_id and session_generated for a request
\* with this header, gen being what generate_session_id would return
SessionOf(header, gen) ==
    IF header.present /\ header.value # <<>> /\ validate_session_id(header.value)
    THEN [session_id |-> header.value, session_generated |-> FALSE]
    ELSE [session_id |-> gen, session_generated |-> TRUE]

\* lines 30-36: get_session_id(request), what the handler sees
get_session_id(state, gen) ==
    IF state.session_id # <<>> THEN state.session_id ELSE gen

\* lines 68-76: the X-Session-ID header of the response.  call_next re-raises
\* an exception no handler is registered for; the 500 response is then
\* produced outside the middleware and carries no session header.
ResponseHeader(state, raised) ==
    IF raised THEN Absent ELSE Present(state.session_id)

NoResponse == [fn |-> "none"]

\* The response to a request: what was asked, the session id the handler saw
\* and what came back
Response(fn, header, user, build_id, arg, gen, out) ==
    LET state == SessionOf(header, gen)
    IN  [fn |-> fn, header |-> header, user |-> user, build_id |-> build_id,
         arg |-> arg, seen |-> get_session_id(state, gen),
         generated |-> state.session_generated,
         status |-> out.status, error |-> out.error, body |-> out.body,
         resp_header |-> ResponseHeader(state, out.status = 500)]

ValidId == SESSION_PREFIX \o
    <<"0", "1", "2", "3", "4", "5", "6", "7", "8", "9", "a", "b",
      "c", "d", "e", "f", "0", "1", "2", "3", "4", "5", "6", "7">>

\* the session id of the fixtures of backend/app/tests/conftest.py
FixtureId == SESSION_PREFIX \o
    <<"t", "e", "s", "t", "1", "2", "3", "4", "5", "6", "7", "8", "9", "a", "b", "c">>

\* Header values a client can send: well-formed ids, ids with one character
\* replaced, too short, too long, without the prefix, empty
HeaderValues ==
    GeneratedIds \cup {ValidId, FixtureId, <<>>}
      \cup {[ValidId EXCEPT ![i] = c] : i \in 1..SessionIdLen, c \in {"g", "A", " "}}
      \cup {SubSeq(ValidId, 1, SessionIdLen - 1), ValidId \o <<"a">>,
            SubSeq(ValidId, Len(SESSION_PREFIX) + 1, SessionIdLen),
            <<"x">> \o ValidId}

AllHeaders == {Absent} \cup {Present(v) : v \in HeaderValues}

\* What a route handler gives back to the middleware
HandlerResult(status, error, body) == [status |-> status, error |-> error, body |-> body]

Unhandled == HandlerResult(500, "unhandled", "none")

SessionInit ==
    /\ ChunkIdle
    /\ processed = <<>>
    /\ embedding_model = "None"
    /\ model_loads = 0
    /\ EmbedIdle
    /\ IndexIdle
    /\ PipeIdle
    /\ QueryIdle
    /\ WebIdle

\* One request to any route: the handler returns a response, raises an error
\* with a registered handler (an APIError) or raises another exception
AnyRequest(header, gen, out) ==
    /\ resp' = Response("any", header, "None", "none", "none", gen, out)
    /\ UNCHANGED <<chunk_vars, embed_vars, index_vars, pipe_vars, setup_result,
                   model_loads, query_vars, db_builds, db_votes, next_build,
                   created_with, tx, cache_vars>>

SessionNext ==
    \E header \in AllHeaders, gen \in GeneratedIds,
       out \in {HandlerResult(200, "none", "none"),
                HandlerResult(404, "build_not_found", "none"), Unhandled} :
        AnyRequest(header, gen, out)

SpecSession == SessionInit /\ [][SessionNext]_vars

\* sess_ followed by 24 lowercase hexadecimal characters
WellFormedId(s) ==
    /\ Len(s) = 29
    /\ SubSeq(s, 1, 5) = <<"s", "e", "s", "s", "_">>
    /\ \A i \in 6..29 : s[i] \in HexChars

\* The handler saw the header's id if it is well formed and else a generated
\* id of the format
SessionSeen(r) ==
    /\ (r.header.present /\ WellFormedId(r.header.value)) =>
          r.seen = r.header.value /\ ~r.generated
    /\ ~(r.header.present /\ WellFormedId(r.header.value)) =>
          r.generated /\ WellFormedId(r.seen)

C24_WitnessValid ==
    /\ resp # NoResponse
    /\ resp.header = Present(ValidId)
    /\ resp.seen = ValidId
    /\ resp.resp_header = Present(ValidId)

(***************************************************************************)
(* The builds API of the backend (backend/app/api/v1/builds.py).  Every   *)
(* request passes the session middleware.  A handler that reads and       *)
(* writes in one transaction without another request in between is one    *)
(* action; vote_build, whose read and commit can be separated by the      *)
(* commit of another replica (db/session.py: several replicas on one      *)
(* database), is two.  A client takes the response before the next        *)
(* request is answered.  name stands for the text fields name and         *)
(* description.                                                            *)
(***************************************************************************)
MaxBuilds == 1

Users == {"None", "p1"}

VoteRatings == {2, 4}

\* config.py:86, the default
AUTH_REQUIRED_FOR_WRITES == FALSE

\* scripts/seed_templates.py: session_id of the seeded templates
TemplateSession ==
    <<"s", "y", "s", "t", "e", "m", "_", "t", "e", "m", "p", "l", "a", "t", "e">>

TemplateId == <<"t", 1>>

\* core/security.py:21-28, the ids generate_build_id gives one after another
BuildId(n) == <<"b", n>>

MissingId == <<"b", 0>>

RequestIds == {TemplateId, MissingId} \cup {BuildId(n) : n \in 1..MaxBuilds}

\* models/build.py:14-98, a row of table builds
Build(build_id, name, is_public, is_template, session_id, player_id) ==
    [build_id |-> build_id, name |-> name, is_public |-> is_public,
     is_template |-> is_template, session_id |-> session_id,
     player_id |-> player_id, rating_sum |-> 0, vote_count |-> 0]

SeededTemplate == Build(TemplateId, "n1", TRUE, TRUE, TemplateSession, "None")

\* models/build.py:101-139, a row of table build_votes
BuildVote(build_id, session_id, player_id, rating) ==
    [build_id |-> build_id, session_id |-> session_id, player_id |-> player_id,
     rating |-> rating]

\* db.query(Build).filter(Build.build_id == build_id).first()
Found(builds, build_id) == {b \in builds : b.build_id = build_id}

TheBuild(builds, build_id) == CHOOSE b \in builds : b.build_id = build_id

\* round(x, 1) of x = num / den, in tenths (ties go to the even digit)
RoundTenths(num, den) ==
    LET q == (10 * num) \div den
        r == (10 * num) % den
    IN  IF 2 * r < den THEN q
        ELSE IF 2 * r > den THEN q + 1
        ELSE IF q % 2 = 0 THEN q ELSE q + 1

\* models/build.py:68-80: avg_rating in tenths; -1 is None
avg_rating(build) ==
    IF build.vote_count = 0 THEN -1
    ELSE RoundTenths(build.rating_sum, build.vote_count)

\* lines 139-161
check_build_ownership(build, session_id, user) ==
    IF build.is_template THEN FALSE
    ELSE IF build.session_id = session_id THEN TRUE
    ELSE IF user # "None" /\ build.player_id # "None" /\ build.player_id = user
         THEN TRUE
    ELSE FALSE

\* core/errors.py: the responses of the registered error handlers
BuildNotFoundError(build_id) == HandlerResult(404, "build_not_found", build_id)

AlreadyVotedError(build_id) == HandlerResult(409, "already_voted", build_id)

\* builds.py:52-58 imports AuthenticationRequiredError from core/errors.py,
\* which defines no such class: lines 205 and 266 cannot raise an APIError
AuthenticationRequiredError == Unhandled

ValidationError == HandlerResult(400, "validation_error", "none")

\* core/errors.py:79-88: NotOwnerError takes the resource only.  Called
\* with a second argument, as lines 556 and 600 of builds.py do, the
\* constructor raises TypeError, which no handler is registered for.
NotOwnerError(args) ==
    IF args = 1 THEN HandlerResult(403, "not_owner", "none") ELSE Unhandled

\* a get_build that tells a non-owner that the build is not theirs
get_build_Forbidden(builds, build_id, session_id, user) ==
    IF Found(builds, build_id) = {} THEN BuildNotFoundError(build_id)
    ELSE LET build == TheBuild(builds, build_id)
         IN  IF ~build.is_public /\ ~build.is_template
                  /\ ~check_build_ownership(build, session_id, user)
             THEN NotOwnerError(1)
             ELSE HandlerResult(200, "none", build)

\* lines 406-432: what get_build gives back
get_build(builds, build_id, session_id, user) ==
    IF Found(builds, build_id) = {} THEN BuildNotFoundError(build_id)
    ELSE LET build == TheBuild(builds, build_id)
         IN  IF ~build.is_public /\ ~build.is_template
                  /\ ~check_build_ownership(build, session_id, user)
             THEN BuildNotFoundError(build_id)
             ELSE HandlerResult(200, "none", build)

\* lines 240-313: [builds, out] of create_build; data.valid tells whether
\* archetypes and race pass validation
create_build(builds, build_id, data, session_id, user) ==
    IF AUTH_REQUIRED_FOR_WRITES /\ user = "None"
    THEN [builds |-> builds, out |-> AuthenticationRequiredError]
    ELSE IF ~data.valid THEN [builds |-> builds, out |-> ValidationError]
    ELSE LET build == Build(build_id, data.name, data.is_public, FALSE,
                            session_id, user)
         IN  [builds |-> builds \cup {build},
              out |-> HandlerResult(201, "none", build)]

\* lines 528-575: [builds, out] of update_build
update_build(builds, build_id, data, session_id, user) ==
    IF Found(builds, build_id) = {}
    THEN [builds |-> builds, out |-> BuildNotFoundError(build_id)]
    ELSE LET build == TheBuild(builds, build_id)
             updated == [build EXCEPT
                           !.name = IF data.name = "None" THEN @ ELSE data.name,
                           !.is_public = IF data.is_public = "None" THEN @
                                         ELSE data.is_public = "True"]
         IN  IF build.is_template
             THEN [builds |-> builds, out |-> NotOwnerError(2)]
             ELSE IF ~check_build_ownership(build, session_id, user)
             THEN [builds |-> builds, out |-> NotOwnerError(1)]
             ELSE [builds |-> (builds \ {build}) \cup {updated},
                   out |-> HandlerResult(200, "none", updated)]

\* lines 578-613: [builds, votes, out] of delete_build; the votes of the
\* build go with it
delete_build(builds, votes, build_id, session_id, user) ==
    IF Found(builds, build_id) = {}
    THEN [builds |-> builds, votes |-> votes, out |-> BuildNotFoundError(build_id)]
    ELSE LET build == TheBuild(builds, build_id)
         IN  IF build.is_template
             THEN [builds |-> builds, votes |-> votes, out |-> NotOwnerError(2)]
             ELSE IF ~check_build_ownership(build, session_id, user)
             THEN [builds |-> builds, votes |-> votes, out |-> NotOwnerError(1)]
             ELSE [builds |-> builds \ {build},
                   votes |-> {v \in votes : v.build_id # build_id},
                   out |-> HandlerResult(200, "none", build_id)]

\* lines 186-235: [builds, out] of claim_anonymous_builds
claim_anonymous_builds(builds, claimed_session, user) ==
    IF user = "None" THEN [builds |-> builds, out |-> AuthenticationRequiredError]
    ELSE LET to_claim == {b \in builds : /\ b.session_id = claimed_session
                                         /\ b.player_id = "None"
                                         /\ ~b.is_template}
         IN  [builds |-> (builds \ to_claim)
                           \cup {[b EXCEPT !.player_id = user] : b \in to_claim},
              out |-> HandlerResult(200, "none", Cardinality(to_claim))]

\* lines 638-652: vote_build finds an earlier vote of the player or session
ExistingVote(votes, build_id, session_id, user) ==
    \/ /\ user # "None"
       /\ \E v \in votes : v.build_id = build_id /\ v.player_id = user
    \/ \E v \in votes : v.build_id = build_id /\ v.session_id = session_id

\* a table without unique constraints
UniqueViolation_Never(votes, vote) == FALSE

\* models/build.py:131-135: uq_build_vote_session and uq_build_vote_player
\* (NULL player ids do not collide; user_id is never set)
UniqueViolation(votes, vote) ==
    \E v \in votes :
        /\ v.build_id = vote.build_id
        /\ \/ v.session_id = vote.session_id
           \/ vote.player_id # "None" /\ v.player_id = vote.player_id

\* lines 664-686: [builds, votes, out] of the commit of a vote whose
\* transaction read rating_sum and vote_count as tx.rating_sum, tx.vote_count.
\* The UPDATE of the build carries the values computed from what was read;
\* it matches no row when the build is gone (an exception no handler is
\* registered for); the INSERT fails on a unique constraint, the transaction
\* is rolled back and AlreadyVotedError raised.
commit_vote(builds, votes, t) ==
    LET vote == BuildVote(t.build_id, t.session_id, t.user, t.rating)
    IN  IF Found(builds, t.build_id) = {}
        THEN [builds |-> builds, votes |-> votes, out |-> Unhandled]
        ELSE IF UniqueViolation(votes, vote)
        THEN [builds |-> builds, votes |-> votes, out |-> AlreadyVotedError(t.build_id)]
        ELSE LET build == TheBuild(builds, t.build_id)
                 updated == [build EXCEPT !.rating_sum = t.rating_sum + t.rating,
                                          !.vote_count = t.vote_count + 1]
             IN  [builds |-> (builds \ {build}) \cup {updated},
                  votes |-> votes \cup {vote},
                  out |-> HandlerResult(200, "none",
                              [your_rating |-> t.rating,
                               avg_rating |-> avg_rating(updated),
                               vote_count |-> updated.vote_count])]

BuildHeaders == {Present(FixtureId)} \cup {Present(s) : s \in GeneratedIds}

CreateData == [name : {"n1"}, is_public : BOOLEAN, valid : BOOLEAN]

UpdateData == [name : {"None", "n2"}, is_public : {"None", "True", "False"}]

NotWeb ==
    <<chunk_vars, embed_vars, index_vars, pipe_vars, setup_result, model_loads,
      query_vars, cache_vars>>

\* The database after the templates were seeded
SeededDb ==
    /\ db_builds = {SeededTemplate}
    /\ db_votes = {}
    /\ next_build = 0
    /\ created_with = {}
    /\ resp = NoResponse
    /\ tx = [w \in Workers |-> NoRequest]

BuildsInit ==
    /\ ChunkIdle
    /\ processed = <<>>
    /\ embedding_model = "None"
    /\ model_loads = 0
    /\ EmbedIdle
    /\ IndexIdle
    /\ PipeIdle
    /\ QueryIdle
    /\ redis_up = TRUE
    /\ redis_client = "None"
    /\ redis_available = TRUE
    /\ redis_pool = "None"
    /\ redis_keys = {}
    /\ cache_last = NoCacheCall
    /\ SeededDb

\* POST /builds
CallCreateBuild(header, gen, user, data) ==
    LET sid == get_session_id(SessionOf(header, gen), gen)
        res == create_build(db_builds, BuildId(next_build + 1), data, sid, user)
        made == res.out.status = 201
    IN  /\ resp = NoResponse
        /\ next_build < MaxBuilds
        /\ db_builds' = res.builds
        /\ next_build' = IF made THEN next_build + 1 ELSE next_build
        /\ created_with' = IF made
                           THEN created_with \cup {<<BuildId(next_build + 1), header, user>>}
                           ELSE created_with
        /\ resp' = Response("create_build", header, user, BuildId(next_build + 1),
                            data, gen, res.out)
        /\ UNCHANGED <<db_votes, tx, NotWeb>>

\* GET /builds/{build_id}
CallGetBuild(header, gen, user, build_id) ==
    LET sid == get_session_id(SessionOf(header, gen), gen)
    IN  /\ resp = NoResponse
        /\ resp' = Response("get_build", header, user, build_id, "none", gen,
                            get_build(db_builds, build_id, sid, user))
        /\ UNCHANGED <<db_builds, db_votes, next_build, created_with, tx, NotWeb>>

\* PATCH /builds/{build_id}
CallUpdateBuild(header, gen, user, build_id, data) ==
    LET sid == get_session_id(SessionOf(header, gen), gen)
        res == update_build(db_builds, build_id, data, sid, user)
    IN  /\ resp = NoResponse
        /\ db_builds' = res.builds
        /\ resp' = Response("update_build", header, user, build_id, data, gen, res.out)
        /\ UNCHANGED <<db_votes, next_build, created_with, tx, NotWeb>>

\* DELETE /builds/{build_id}
CallDeleteBuild(header, gen, user, build_id) ==
    LET sid == get_session_id(SessionOf(header, gen), gen)
        res == delete_build(db_builds, db_votes, build_id, sid, user)
    IN  /\ resp = NoResponse
        /\ db_builds' = res.builds
        /\ db_votes' = res.votes
        /\ resp' = Response("delete_build", header, user, build_id, "none", gen, res.out)
        /\ UNCHANGED <<next_build, created_with, tx, NotWeb>>

\* POST /builds/auth/claim
CallClaimBuilds(header, gen, user, claimed_session) ==
    LET res == claim_anonymous_builds(db_builds, claimed_session, user)
    IN  /\ resp = NoResponse
        /\ db_builds' = res.builds
        /\ resp' = Response("claim_anonymous_builds", header, user, "none",
                            claimed_session, gen, res.out)
        /\ UNCHANGED <<db_votes, next_build, created_with, tx, NotWeb>>

\* POST /builds/{build_id}/vote up to the commit (lines 616-662): the build
\* is read and earlier votes are looked for
VoteBegin(w, header, gen, user, build_id, rating) ==
    LET sid == get_session_id(SessionOf(header, gen), gen)
        early == IF Found(db_builds, build_id) = {} THEN BuildNotFoundError(build_id)
                 ELSE AlreadyVotedError(build_id)
        goes_on == /\ Found(db_builds, build_id) # {}
                   /\ ~ExistingVote(db_votes, build_id, sid, user)
    IN  /\ resp = NoResponse
        /\ tx[w] = NoRequest
        /\ IF goes_on
           THEN /\ tx' = [tx EXCEPT ![w] =
                            [pc |-> "voting", header |-> header, gen |-> gen,
                             user |-> user, build_id |-> build_id, rating |-> rating,
                             session_id |-> sid,
                             rating_sum |-> TheBuild(db_builds, build_id).rating_sum,
                             vote_count |-> TheBuild(db_builds, build_id).vote_count]]
                /\ resp' = resp
           ELSE /\ tx' = tx
                /\ resp' = Response("vote_build", header, user, build_id, rating,
                                    gen, early)
        /\ UNCHANGED <<db_builds, db_votes, next_build, created_with, NotWeb>>

\* the commit of the vote (lines 664-686)
VoteCommit(w) ==
    LET t == tx[w]
        res == commit_vote(db_builds, db_votes, t)
    IN  /\ resp = NoResponse
        /\ t.pc = "voting"
        /\ db_builds' = res.builds
        /\ db_votes' = res.votes
        /\ tx' = [tx EXCEPT ![w] = NoRequest]
        /\ resp' = Response("vote_build", t.header, t.user, t.build_id, t.rating,
                            t.gen, res.out)
        /\ UNCHANGED <<next_build, created_with, NotWeb>>

\* The client takes the response
Receive ==
    /\ resp # NoResponse
    /\ resp' = NoResponse
    /\ UNCHANGED <<db_builds, db_votes, next_build, created_with, tx, NotWeb>>

BuildsNext ==
    \/ \E header \in BuildHeaders, gen \in GeneratedIds, user \in Users :
          \/ \E data \in CreateData : CallCreateBuild(header, gen, user, data)
          \/ \E build_id \in RequestIds :
                \/ CallGetBuild(header, gen, user, build_id)
                \/ \E data \in UpdateData :
                      CallUpdateBuild(header, gen, user, build_id, data)
                \/ CallDeleteBuild(header, gen, user, build_id)
          \/ \E s \in GeneratedIds : CallClaimBuilds(header, gen, user, s)
    \/ Receive

SpecBuilds == BuildsInit /\ [][BuildsNext]_vars

\* A step that answers a request
Answered == resp = NoResponse /\ resp' # NoResponse

\* The requester of the response r is not the owner of build b: its session
\* id differs from the build's and its player id does not match the build's
NotOwnerOf(r, b) ==
    /\ b.session_id # r.seen
    /\ ~(r.user # "None" /\ b.player_id = r.user)

\* C22: for every X-Session-ID header value s, a build created by an
\* anonymous request carrying s can be updated and deleted by a later
\* request carrying the same header value s.
C22_CreatorSessionOwns ==
    [][(/\ Answered
        /\ resp'.fn \in {"update_build", "delete_build"}
        /\ resp'.header.present
        /\ resp'.user = "None"
        /\ Found(db_builds, resp'.build_id) # {}
        /\ <<resp'.build_id, resp'.header, "None">> \in created_with)
          => /\ resp'.status = 200
             /\ resp'.fn = "delete_build" => Found(db_builds', resp'.build_id) = {}]_vars

\* C22 for well-formed session ids only
CreatorSessionOwns_WellFormed ==
    [][(/\ Answered
        /\ resp'.fn \in {"update_build", "delete_build"}
        /\ resp'.header.present
        /\ WellFormedId(resp'.header.value)
        /\ resp'.user = "None"
        /\ Found(db_builds, resp'.build_id) # {}
        /\ <<resp'.build_id, resp'.header, "None">> \in created_with)
          => /\ resp'.status = 200
             /\ resp'.fn = "delete_build" => Found(db_builds', resp'.build_id) = {}]_vars

\* C23: an update or delete request on a build from a requester whose
\* session id differs from the build's session_id and whose player id does
\* not match the build's player_id is rejected with the not_owner error
\* (403), and the build's stored fields and existence are unchanged.
C23_NonOwnerRejected ==
    [][(/\ Answered
        /\ resp'.fn \in {"update_build", "delete_build"}
        /\ Found(db_builds, resp'.build_id) # {}
        /\ NotOwnerOf(resp', TheBuild(db_builds, resp'.build_id)))
          => /\ resp'.status = 403
             /\ resp'.error = "not_owner"
             /\ db_builds' = db_builds
             /\ db_votes' = db_votes]_vars

\* C23 for builds that are not templates
NonOwnerRejected_NotTemplate ==
    [][(/\ Answered
        /\ resp'.fn \in {"update_build", "delete_build"}
        /\ Found(db_builds, resp'.build_id) # {}
        /\ ~TheBuild(db_builds, resp'.build_id).is_template
        /\ NotOwnerOf(resp', TheBuild(db_builds, resp'.build_id)))
          => /\ resp'.status = 403
             /\ resp'.error = "not_owner"
             /\ db_builds' = db_builds
             /\ db_votes' = db_votes]_vars

\* The response r is the one the same request gets from the database db
SameAsOn(r, db) ==
    LET o == get_build(db, r.build_id, r.seen, r.user)
    IN  /\ r.status = o.status
        /\ r.error = o.error
        /\ r.body = o.body
        /\ r.resp_header = Present(r.seen)

\* C26: a GET of a private build that is not a template by a requester who
\* is not its owner gets the response the same request gets when no build
\* has that id, build_not_found (404); the owner, by session id or player
\* id, receives the build.
C26_PrivateBuildLooksAbsent ==
    [][(/\ Answered
        /\ resp'.fn = "get_build"
        /\ Found(db_builds, resp'.build_id) # {}
        /\ ~TheBuild(db_builds, resp'.build_id).is_public
        /\ ~TheBuild(db_builds, resp'.build_id).is_template)
          => LET b == TheBuild(db_builds, resp'.build_id)
             IN  IF NotOwnerOf(resp', b)
                 THEN /\ resp'.status = 404
                      /\ resp'.error = "build_not_found"
                      /\ SameAsOn(resp', db_builds \ {b})
                 ELSE /\ resp'.status = 200
                      /\ resp'.body = b]_vars

\* a private build asked for by somebody else: 404
C26_Witness ==
    /\ resp # NoResponse
    /\ resp.fn = "get_build"
    /\ resp.status = 404
    /\ Found(db_builds, resp.build_id) # {}
    /\ ~TheBuild(db_builds, resp.build_id).is_public

\* a private build given to its owner by player id from another session
C26_WitnessOwner ==
    /\ resp # NoResponse
    /\ resp.fn = "get_build"
    /\ resp.status = 200
    /\ ~resp.body.is_public
    /\ resp.body.session_id # resp.seen

(***************************************************************************)
(* Voting.  The database holds the seeded template and one build of a     *)
(* user; two replicas handle vote requests, whose commits interleave, and *)
(* the owner may delete the build.                                         *)
(***************************************************************************)
FirstOwner == CHOOSE s \in GeneratedIds : TRUE

VoteHeaders == {Absent} \cup {Present(s) : s \in GeneratedIds}

VoteIds == {BuildId(1), MissingId}

VotesInit ==
    /\ ChunkIdle
    /\ processed = <<>>
    /\ embedding_model = "None"
    /\ model_loads = 0
    /\ EmbedIdle
    /\ IndexIdle
    /\ PipeIdle
    /\ QueryIdle
    /\ redis_up = TRUE
    /\ redis_client = "None"
    /\ redis_available = TRUE
    /\ redis_pool = "None"
    /\ redis_keys = {}
    /\ cache_last = NoCacheCall
    /\ db_builds = {SeededTemplate,
                    Build(BuildId(1), "n1", TRUE, FALSE, FirstOwner, "None")}
    /\ db_votes = {}
    /\ next_build = 1
    /\ created_with = {<<BuildId(1), Present(FirstOwner), "None">>}
    /\ resp = NoResponse
    /\ tx = [w \in Workers |-> NoRequest]

VotesNext ==
    \/ \E w \in Workers, header \in VoteHeaders, gen \in GeneratedIds,
          user \in Users, build_id \in VoteIds, rating \in VoteRatings :
            VoteBegin(w, header, gen, user, build_id, rating)
    \/ \E w \in Workers : VoteCommit(w)
    \/ \E gen \in GeneratedIds : CallDeleteBuild(Present(FirstOwner), gen, "None", BuildId(1))
    \/ Receive

SpecVotes == VotesInit /\ [][VotesNext]_vars

\* The votes stored for a build
VotesOf(votes, build_id) == {v \in votes : v.build_id = build_id}

RECURSIVE SumRatings(_)
SumRatings(votes) ==
    IF votes = {} THEN 0
    ELSE LET v == CHOOSE x \in votes : TRUE
         IN  v.rating + SumRatings(votes \ {v})

\* The requester of the response r has a vote on the build among votes
AlreadyVoted(votes, r) ==
    \E v \in votes :
        /\ v.build_id = r.build_id
        /\ \/ v.session_id = r.seen
           \/ r.user # "None" /\ v.player_id = r.user

\* At most one vote per session id and per player id on each build
OneVoteEach(votes) ==
    \A v1, v2 \in votes :
        (/\ v1.build_id = v2.build_id
         /\ \/ v1.session_id = v2.session_id
            \/ v1.player_id # "None" /\ v1.player_id = v2.player_id)
          => v1 = v2

\* C21: after any sequence of vote requests each build has at most one vote
\* per session id and at most one per authenticated player id; a vote
\* request from a session or player that has already voted on the build is
\* rejected with already_voted (409) and leaves rating_sum, vote_count and
\* the stored votes unchanged.
C21_OneVotePerVoter ==
    [][/\ OneVoteEach(db_votes')
       /\ (Answered /\ resp'.fn = "vote_build" /\ AlreadyVoted(db_votes, resp'))
            => /\ resp'.status = 409
               /\ resp'.error = "already_voted"
               /\ db_builds' = db_builds
               /\ db_votes' = db_votes]_vars

\* a second vote of a player, sent from another session, was rejected
C21_Witness ==
    /\ resp # NoResponse
    /\ resp.fn = "vote_build"
    /\ resp.status = 409
    /\ resp.user # "None"
    /\ \E v \in db_votes : /\ v.build_id = resp.build_id
                           /\ v.player_id = resp.user
                           /\ v.session_id # resp.seen

\* C28: after any sequence of vote requests on a build, also from different
\* sessions handled concurrently, vote_count is the number of votes stored
\* for the build and rating_sum the sum of their ratings, and the average
\* reported to a voter is the mean of the stored ratings.
C28_AggregatesMatchVotes ==
    /\ \A b \in db_builds :
          /\ b.vote_count = Cardinality(VotesOf(db_votes, b.build_id))
          /\ b.rating_sum = SumRatings(VotesOf(db_votes, b.build_id))
    /\ (resp # NoResponse /\ resp.fn = "vote_build" /\ resp.status = 200) =>
          /\ resp.body.vote_count = Cardinality(VotesOf(db_votes, resp.build_id))
          /\ resp.body.avg_rating =
                RoundTenths(SumRatings(VotesOf(db_votes, resp.build_id)),
                            Cardinality(VotesOf(db_votes, resp.build_id)))

(***************************************************************************)
(* The cache helpers of the backend (backend/app/core/cache.py).  The     *)
(* Redis server is reachable or not (redis_up) and holds a set of keys;   *)
(* the module keeps a client, a connection pool and the flag              *)
(* _redis_available.  A helper call is one action: the calls are          *)
(* coroutines of one event loop.                                           *)
(***************************************************************************)
CacheKeys == {"k1", "k2"}

\* a get_redis that does not remember a failed attempt
get_redis_NoLatch(client, available, pool, up) ==
    IF client = "None" THEN
        IF up THEN [client |-> "Client", available |-> TRUE, pool |-> "Pool",
                    attempted |-> TRUE, value |-> "Client"]
        ELSE [client |-> "None", available |-> TRUE, pool |-> "Pool",
              attempted |-> TRUE, value |-> "None"]
    ELSE [client |-> client, available |-> available, pool |-> pool,
          attempted |-> FALSE, value |-> client]

\* lines 43-70: [client, available, pool, attempted, value] of get_redis();
\* attempted tells whether ping() was sent, up whether the server answers
get_redis(client, available, pool, up) ==
    IF ~available THEN
        [client |-> client, available |-> available, pool |-> pool,
         attempted |-> FALSE, value |-> "None"]
    ELSE IF client = "None" THEN
        IF up THEN [client |-> "Client", available |-> TRUE, pool |-> "Pool",
                    attempted |-> TRUE, value |-> "Client"]
        ELSE [client |-> "None", available |-> FALSE, pool |-> "Pool",
              attempted |-> TRUE, value |-> "None"]
    ELSE [client |-> client, available |-> available, pool |-> pool,
          attempted |-> FALSE, value |-> client]

\* lines 120-205: the value cache_get, cache_set, cache_delete or cache_exists
\* returns for key, the client being what get_redis() gave
CacheValue(fn, key, client, up, keys) ==
    IF client = "None" \/ ~up
    THEN (IF fn = "cache_get" THEN "None" ELSE "False")
    ELSE IF fn = "cache_get" THEN (IF key \in keys THEN "value" ELSE "None")
    ELSE IF fn = "cache_exists" THEN (IF key \in keys THEN "True" ELSE "False")
    ELSE "True"

\* the keys of the server after the call
KeysAfter(fn, key, client, up, keys) ==
    IF client = "None" \/ ~up THEN keys
    ELSE IF fn = "cache_set" THEN keys \cup {key}
    ELSE IF fn = "cache_delete" THEN keys \ {key}
    ELSE keys

\* A connection attempt has failed and neither reset_redis_connection nor
\* check_redis_health has been called since
Latched == cache_last.latched

CacheInit ==
    /\ ChunkIdle
    /\ processed = <<>>
    /\ embedding_model = "None"
    /\ model_loads = 0
    /\ EmbedIdle
    /\ IndexIdle
    /\ PipeIdle
    /\ QueryIdle
    /\ WebIdle

NotCache ==
    <<chunk_vars, embed_vars, index_vars, pipe_vars, setup_result, model_loads,
      query_vars, build_vars>>

\* The server becomes unreachable or reachable again
RedisToggle ==
    /\ redis_up' = ~redis_up
    /\ UNCHANGED <<redis_client, redis_available, redis_pool, redis_keys,
                   cache_last, NotCache>>

\* One call get_redis()
CallGetRedis ==
    LET res == get_redis(redis_client, redis_available, redis_pool, redis_up)
    IN  /\ redis_client' = res.client
        /\ redis_available' = res.available
        /\ redis_pool' = res.pool
        /\ cache_last' = [fn |-> "get_redis", up |-> redis_up, raised |-> FALSE,
                          attempted |-> res.attempted, value |-> res.value,
                          was_latched |-> Latched, n |-> 1 - cache_last.n,
                          latched |-> IF res.attempted THEN ~redis_up ELSE Latched]
        /\ UNCHANGED <<redis_up, redis_keys, NotCache>>

\* One call cache_get(key), cache_set(key, value), cache_delete(key) or
\* cache_exists(key)
CallCacheHelper(fn, key) ==
    LET res == get_redis(redis_client, redis_available, redis_pool, redis_up)
    IN  /\ redis_client' = res.client
        /\ redis_available' = res.available
        /\ redis_pool' = res.pool
        /\ redis_keys' = KeysAfter(fn, key, res.value, redis_up, redis_keys)
        /\ cache_last' = [fn |-> fn, up |-> redis_up, raised |-> FALSE,
                          attempted |-> res.attempted,
                          value |-> CacheValue(fn, key, res.value, redis_up, redis_keys),
                          was_latched |-> Latched, n |-> 1 - cache_last.n,
                          latched |-> IF res.attempted THEN ~redis_up ELSE Latched]
        /\ UNCHANGED <<redis_up, NotCache>>

\* lines 73-89: reset_redis_connection()
CallResetRedisConnection ==
    /\ redis_client' = "None"
    /\ redis_available' = TRUE
    /\ redis_pool' = "None"
    /\ cache_last' = [fn |-> "reset_redis_connection", up |-> redis_up,
                      raised |-> FALSE, attempted |-> FALSE, value |-> "None",
                      was_latched |-> Latched, n |-> 1 - cache_last.n, latched |-> FALSE]
    /\ UNCHANGED <<redis_up, redis_keys, NotCache>>

\* lines 92-117: check_redis_health()
CallCheckRedisHealth ==
    LET res == get_redis(redis_client, TRUE, redis_pool, redis_up)
    IN  /\ redis_client' = res.client
        /\ redis_available' = res.available
        /\ redis_pool' = res.pool
        /\ cache_last' = [fn |-> "check_redis_health", up |-> redis_up,
                          raised |-> FALSE, attempted |-> res.attempted,
                          value |-> IF res.value # "None" /\ redis_up
                                    THEN "True" ELSE "False",
                          was_latched |-> Latched, n |-> 1 - cache_last.n,
                          latched |-> IF res.attempted THEN ~redis_up ELSE FALSE]
        /\ UNCHANGED <<redis_up, redis_keys, NotCache>>

\* lines 208-228: close_redis()
CallCloseRedis ==
    /\ redis_client' = "None"
    /\ redis_pool' = "None"
    /\ cache_last' = [fn |-> "close_redis", up |-> redis_up, raised |-> FALSE,
                      attempted |-> FALSE, value |-> "None",
                      was_latched |-> Latched, n |-> 1 - cache_last.n, latched |-> Latched]
    /\ UNCHANGED <<redis_up, redis_available, redis_keys, NotCache>>

CacheHelpers == {"cache_get", "cache_set", "cache_delete", "cache_exists"}

CacheNext ==
    \/ RedisToggle
    \/ CallGetRedis
    \/ \E fn \in CacheHelpers, key \in CacheKeys : CallCacheHelper(fn, key)
    \/ CallResetRedisConnection
    \/ CallCheckRedisHealth
    \/ CallCloseRedis

SpecCache == CacheInit /\ [][CacheNext]_vars

\* A step that is one call of get_redis or of a cache helper
CacheCallStep ==
    /\ cache_last' # cache_last
    /\ cache_last'.fn \in CacheHelpers \cup {"get_redis"}

\* A step that is one call of check_redis_health
HealthStep == cache_last' # cache_last /\ cache_last'.fn = "check_redis_health"

\* C25, second part: once a connection attempt has failed, every later
\* get_redis call returns None without attempting to connect, until
\* reset_redis_connection or check_redis_health is called; the health check
\* itself, and the first call after a reset, attempt to connect again.
LatchHolds ==
    /\ (CacheCallStep /\ Latched) =>
          /\ ~cache_last'.attempted
          /\ cache_last'.value \in {"None", "False"}
    /\ (CacheCallStep /\ cache_last.fn = "reset_redis_connection") =>
          cache_last'.attempted
    /\ (HealthStep /\ Latched) => cache_last'.attempted

C25_LatchHolds == [][LatchHolds]_vars

C25_WitnessStale ==
    /\ cache_last.fn = "cache_get"
    /\ ~cache_last.up
    /\ redis_client = "Client"
    /\ cache_last.value = "None"

(***************************************************************************)
(* run_data_pipeline (main.py:23-75) with the codex scraper                *)
(* (codex_scraper.py:614-721) and the official website scraper             *)
(* (official_website_scraper.py:568-612).  The categories of a scraper run *)
(* as concurrent tasks: one action is one stretch of a task between two    *)
(* awaits that touch its files.                                            *)
(***************************************************************************)
LongText == <<W(500), NL2, W(500), NL2, W(500)>>

\* The document a page of a category yields when it is fetched and parsed:
\* its source is the page's URL (the category followed by its URL number).
PageSource(c, u) == <<c>> \o [i \in 1..u |-> "/"]

PageDocs(c, u) ==
    <<[text   |-> IF c = "crafting" THEN LongText ELSE <<W(20)>>,
       source |-> PageSource(c, u),
       type   |-> c]>>

\* A Document.dict() of the official scraper has no top-level source or type:
\* chunk_documents gives it the defaults "unknown" and "general".
OfficialDocs == <<[text |-> <<W(20)>>, source |-> <<"unknown">>, type |-> "general"]>>

\* codex_scraper.py:625: the category is scraped
Eligible(force_full, current_time, last) ==
    ~(~force_full /\ current_time - last < FRESH_WINDOW)

\* load_raw_documents (chunk_processor.py:16-46): every JSON file under
\* /data/raw, the per-URL files and all_{category}.json alike
RECURSIVE FlattenPages(_, _)
FlattenPages(pages, u) ==
    IF u > UrlsPerCategory THEN <<>> ELSE pages[u] \o FlattenPages(pages, u + 1)

RECURSIVE LoadCodex(_, _)
LoadCodex(files, i) ==
    IF i > Len(CategoryOrder) THEN <<>>
    ELSE LET c == CategoryOrder[i]
         IN  FlattenPages(files[c].pages, 1) \o files[c].all \o LoadCodex(files, i + 1)

load_raw_documents == LoadCodex(raw_files, 1) \o official_raw.page \o official_raw.all

AllTasksFinished ==
    /\ \A c \in CodexCategories : cat_pc[c] = "finished"
    /\ official_pc = "finished"

PipeInit ==
    /\ ChunkIdle
    /\ processed = <<>>
    /\ embedding_model = "None"
    /\ model_loads = 0
    /\ EmbedIdle
    /\ IndexIdle
    /\ PipeIdle
    /\ QueryIdle
    /\ WebIdle

\* time passes
Tick ==
    /\ now < StartTime + MaxTicks * TickSeconds
    /\ now' = now + TickSeconds
    /\ UNCHANGED <<last_scrape, raw_files, official_last_scrape, official_raw,
                   run_pc, run_force, runs, cat_pc, cat_url, cat_docs, cat_outcome,
                   official_pc, fetch_failed, stamped, official_stamped, next_id,
                   run_chunks, chunk_vars, embed_vars, index_vars>>
    /\ UNCHANGED <<setup_result, model_loads, query_vars>>
    /\ UNCHANGED web_vars

\* main.py:30-59: a run starts, sets the collection up and launches the scrapers
StartRun(force_full) ==
    /\ run_pc \in {"idle", "done"}
    /\ runs < MaxRuns
    /\ runs' = runs + 1
    /\ run_force' = force_full
    /\ \E connect_ok \in BOOLEAN, index_ok \in BOOLEAN :
          IF ~connect_ok
          THEN /\ run_pc' = "failed"
               /\ UNCHANGED <<coll_exists, coll_has_index>>
          ELSE IF coll_exists
          THEN /\ run_pc' = "scraping"
               /\ UNCHANGED <<coll_exists, coll_has_index>>
          ELSE /\ coll_exists' = TRUE
               /\ coll_has_index' = index_ok
               /\ run_pc' = IF index_ok THEN "scraping" ELSE "failed"
    /\ cat_pc' = [c \in CodexCategories |-> "idle"]
    /\ cat_url' = [c \in CodexCategories |-> 1]
    /\ cat_docs' = [c \in CodexCategories |-> <<>>]
    /\ cat_outcome' = [c \in CodexCategories |-> "none"]
    /\ official_pc' = "idle"
    /\ fetch_failed' = {}
    /\ stamped' = {}
    /\ official_stamped' = FALSE
    /\ run_chunks' = <<>>
    /\ UNCHANGED <<now, last_scrape, raw_files, official_last_scrape, official_raw,
                   next_id, coll_rows, ix_hist, ix_count, chunk_vars, embed_vars>>
    /\ UNCHANGED <<setup_result, model_loads, query_vars>>
    /\ UNCHANGED web_vars

\* process_category, lines 616-633: the freshness test and the browser launch
CategoryBegin(c) ==
    /\ run_pc = "scraping"
    /\ cat_pc[c] = "idle"
    /\ \E launch_ok \in BOOLEAN :
          IF ~Eligible(run_force, now, last_scrape[c])
          THEN /\ cat_pc' = [cat_pc EXCEPT ![c] = "finished"]
               /\ cat_outcome' = [cat_outcome EXCEPT ![c] = "skipped"]
          ELSE IF ~launch_ok
          THEN /\ cat_pc' = [cat_pc EXCEPT ![c] = "finished"]
               /\ cat_outcome' = [cat_outcome EXCEPT ![c] = "failed"]
          ELSE /\ cat_pc' = [cat_pc EXCEPT ![c] = "scraping"]
               /\ UNCHANGED cat_outcome
    /\ UNCHANGED <<now, last_scrape, raw_files, official_last_scrape, official_raw,
                   run_pc, run_force, runs, cat_url, cat_docs, official_pc,
                   fetch_failed, stamped, official_stamped, next_id, run_chunks,
                   chunk_vars, embed_vars, index_vars>>
    /\ UNCHANGED <<setup_result, model_loads, query_vars>>
    /\ UNCHANGED web_vars

\* process_category, lines 635-685: one URL.  scrape_location_details and the
\* like catch a failed fetch or parse themselves and return [] (lines 307-309);
\* the result is saved to the URL's file whatever it is.  save_ok: save_json
\* succeeds; when it raises, line 698 ends the category.
CategoryFetch(c) ==
    /\ run_pc = "scraping"
    /\ cat_pc[c] = "scraping"
    /\ cat_url[c] <= UrlsPerCategory
    /\ \E fetch_ok \in BOOLEAN, save_ok \in BOOLEAN :
          LET docs == IF fetch_ok THEN PageDocs(c, cat_url[c]) ELSE <<>>
          IN  /\ fetch_failed' = IF fetch_ok THEN fetch_failed ELSE fetch_failed \cup {c}
              /\ IF save_ok
                 THEN /\ raw_files' = [raw_files EXCEPT ![c].pages[cat_url[c]] = docs]
                      /\ cat_docs' = [cat_docs EXCEPT ![c] = @ \o docs]
                      /\ cat_url' = [cat_url EXCEPT ![c] = @ + 1]
                      /\ UNCHANGED <<cat_pc, cat_outcome>>
                 ELSE /\ cat_pc' = [cat_pc EXCEPT ![c] = "finished"]
                      /\ cat_outcome' = [cat_outcome EXCEPT ![c] = "failed"]
                      /\ UNCHANGED <<raw_files, cat_docs, cat_url>>
    /\ UNCHANGED <<now, last_scrape, official_last_scrape, official_raw, run_pc,
                   run_force, runs, official_pc, stamped, official_stamped,
                   next_id, run_chunks, chunk_vars, embed_vars, index_vars>>
    /\ UNCHANGED <<setup_result, model_loads, query_vars>>
    /\ UNCHANGED web_vars

\* process_category, lines 687-696: all_{category}.json is saved and the
\* category's timestamp is written
CategoryFinish(c) ==
    /\ run_pc = "scraping"
    /\ cat_pc[c] = "scraping"
    /\ cat_url[c] > UrlsPerCategory
    /\ cat_pc' = [cat_pc EXCEPT ![c] = "finished"]
    /\ \E save_ok \in BOOLEAN :
          IF save_ok
          THEN /\ raw_files' = [raw_files EXCEPT ![c].all = cat_docs[c]]
               /\ last_scrape' = [last_scrape EXCEPT ![c] = now]
               /\ stamped' = stamped \cup {c}
               /\ cat_outcome' = [cat_outcome EXCEPT ![c] = "scraped"]
          ELSE /\ cat_outcome' = [cat_outcome EXCEPT ![c] = "failed"]
               /\ UNCHANGED <<raw_files, last_scrape, stamped>>
    /\ UNCHANGED <<now, official_last_scrape, official_raw, run_pc, run_force, runs,
                   cat_url, cat_docs, official_pc, fetch_failed, official_stamped,
                   next_id, run_chunks, chunk_vars, embed_vars, index_vars>>
    /\ UNCHANGED <<setup_result, model_loads, query_vars>>
    /\ UNCHANGED web_vars

\* scrape_official_website (lines 568-612): no freshness test; a page that
\* fails returns [] and leaves its own file alone; all_documents.json and the
\* timestamps of every category are written after the pages.
OfficialScrape ==
    /\ run_pc = "scraping"
    /\ official_pc = "idle"
    /\ official_pc' = "finished"
    /\ \E launch_ok \in BOOLEAN, page_ok \in BOOLEAN :
          IF ~launch_ok
          THEN UNCHANGED <<official_raw, official_last_scrape, official_stamped>>
          ELSE LET docs == IF page_ok THEN OfficialDocs ELSE <<>>
               IN  /\ official_raw' =
                          [page |-> IF page_ok THEN docs ELSE official_raw.page,
                           all  |-> docs]
                   /\ official_last_scrape' = now
                   /\ official_stamped' = TRUE
    /\ UNCHANGED <<now, last_scrape, raw_files, run_pc, run_force, runs, cat_pc,
                   cat_url, cat_docs, cat_outcome, fetch_failed, stamped, next_id,
                   run_chunks, chunk_vars, embed_vars, index_vars>>
    /\ UNCHANGED <<setup_result, model_loads, query_vars>>
    /\ UNCHANGED web_vars

\* main.py:59-63: the scrapers have ended; chunk_documents("/data/raw", ...)
RunChunkDocuments ==
    /\ run_pc = "scraping"
    /\ AllTasksFinished
    /\ \E write_ok \in BOOLEAN :
          LET all_chunks == ChunkAll(load_raw_documents, next_id)
          IN  IF write_ok
              THEN /\ run_chunks' = all_chunks
                   /\ processed' = GroupByType(all_chunks)
                   /\ next_id' = next_id + Len(all_chunks)
                   /\ run_pc' = "chunked"
              ELSE /\ next_id' = next_id + Len(all_chunks)
                   /\ run_pc' = "failed"
                   /\ UNCHANGED <<run_chunks, processed>>
    /\ UNCHANGED <<now, last_scrape, raw_files, official_last_scrape, official_raw,
                   run_force, runs, cat_pc, cat_url, cat_docs, cat_outcome,
                   official_pc, fetch_failed, stamped, official_stamped,
                   ct_pc, ct_text, ct_chunks, embed_vars, index_vars>>
    /\ UNCHANGED <<setup_result, model_loads, query_vars>>
    /\ UNCHANGED web_vars

\* main.py:65-75: index_documents(documents); an exception ends the run
RunIndexDocuments ==
    /\ run_pc = "chunked"
    /\ \E connect_ok \in BOOLEAN, load_ok \in BOOLEAN,
          fail_batch \in 0..(NumBatches(Len(run_chunks), INDEX_BATCH_SIZE) + 1) :
          LET res == index_documents(run_chunks, TheIndex, embedding_model,
                                     connect_ok, load_ok, fail_batch)
          IN  /\ coll_rows' = res.rows
              /\ coll_has_index' = res.has_index
              /\ embedding_model' = res.model
              /\ model_loads' = LoadsAfter(embedding_model, res.model, model_loads)
              /\ run_pc' = IF res.status = "returned" THEN "done" ELSE "failed"
    /\ UNCHANGED <<now, last_scrape, raw_files, official_last_scrape, official_raw,
                   run_force, runs, cat_pc, cat_url, cat_docs, cat_outcome,
                   official_pc, fetch_failed, stamped, official_stamped, next_id,
                   run_chunks, coll_exists, ix_hist, ix_count, chunk_vars,
                   ge_pc, ge_texts, ge_batch_size, ge_result>>
    /\ UNCHANGED <<setup_result, query_vars>>
    /\ UNCHANGED web_vars

\* Documents of a source the scrapers ingest, as schemas.Document objects
PriorDocuments == <<Doc(0, <<W(20)>>, PageSource("locations", 1), "locations")>>

\* index_documents called between two runs with Document objects, the type
\* its signature declares (vector_indexer.py:125)
IndexDocumentObjects ==
    /\ run_pc \in {"done", "failed"}
    /\ ix_count = 0
    /\ CallIndexDocuments(PriorDocuments)

\* schedule_pipeline, line 91: the run made at startup is a full scrape
StartupRun ==
    /\ run_pc = "idle"
    /\ StartRun(TRUE)

\* schedule_pipeline, lines 88 and 94-96: a later run is made by
\* schedule.run_pending() with the default force_full_scrape=False
ScheduledRun ==
    /\ run_pc = "done"
    /\ StartRun(FALSE)

\* run_data_pipeline re-raises (main.py:73-75) and neither asyncio.run at
\* line 91 nor schedule.run_pending() at line 95 is guarded: the exception
\* ends the process.  A later process starts from scratch; the files under
\* /data/raw and the collection outlive it, the loaded model does not.
StartProcess ==
    /\ run_pc = "failed"
    /\ run_pc' = "idle"
    /\ embedding_model' = "None"
    /\ model_loads' = 0
    /\ UNCHANGED <<now, last_scrape, raw_files, official_last_scrape, official_raw,
                   run_force, runs, cat_pc, cat_url, cat_docs, cat_outcome,
                   official_pc, fetch_failed, stamped, official_stamped, next_id,
                   run_chunks, chunk_vars, ge_pc, ge_texts, ge_batch_size, ge_result,
                   index_vars>>
    /\ UNCHANGED <<setup_result, query_vars>>
    /\ UNCHANGED web_vars

PipeNext ==
    \/ Tick
    \/ IndexDocumentObjects
    \/ StartupRun
    \/ ScheduledRun
    \/ StartProcess
    \/ \E c \in CodexCategories : CategoryBegin(c)
    \/ \E c \in CodexCategories : CategoryFetch(c)
    \/ \E c \in CodexCategories : CategoryFinish(c)
    \/ OfficialScrape
    \/ RunChunkDocuments
    \/ RunIndexDocuments

SpecPipeline == PipeInit /\ [][PipeNext]_vars

\* the step that ends the indexing stage of a run, by returning or by raising
IndexingStageEnds ==
    /\ run_pc = "chunked"
    /\ run_pc' \in {"done", "failed"}

\* C7: when a run ingests a source that already has entries in the index,
\* the index holds for that source, once the run's indexing stage has ended,
\* only the chunks the run produced: the prior entries have been deleted and
\* the new chunks inserted.
C7_PurgeBeforeReingest ==
    [][IndexingStageEnds =>
          \A i \in 1..Len(coll_rows) :
              LET source == coll_rows[i].source
              IN  RowsOfSource(run_chunks, source) # <<>> =>
                      Ids(RowsOfSource(coll_rows', source)) =
                          Ids(RowsOfSource(run_chunks, source))]_vars

\* C9: a last_scrape_time written in a run is written only after that run's
\* chunking, embedding and index insertion have completed.
C9_StampAfterIndexing ==
    (stamped # {} \/ official_stamped) => run_pc = "done"

\* every page of the category failed to be fetched or parsed
AllFetchesFailed(c) ==
    /\ c \in fetch_failed
    /\ cat_pc[c] = "finished"
    /\ cat_url[c] > UrlsPerCategory
    /\ cat_docs[c] = <<>>

FetchedAndSaved(c) ==
    /\ c \notin fetch_failed
    /\ cat_outcome[c] = "scraped"

\* C10: when the pages of one category fail and another category succeeds,
\* the failing category's last_scrape_time is left unchanged and the
\* succeeding category's is updated.
C10_CategoryIsolation ==
    \A a, b \in CodexCategories :
        (AllFetchesFailed(a) /\ FetchedAndSaved(b)) =>
            /\ a \notin stamped
            /\ b \in stamped /\ last_scrape[b] = now

\* the eligibility rule as stated: forced, or older than the freshness window
EligibleAsStated(force_full, current_time, last) ==
    force_full \/ current_time - last > FRESH_WINDOW

\* process_category passes its freshness test and its browser launch
CodexBegins(c) == cat_pc[c] = "idle" /\ cat_pc'[c] # "idle"

\* scrape_official_website runs
OfficialRuns == official_pc = "idle" /\ official_pc' = "finished"

\* C11: a category is scraped if and only if force_full is requested or its
\* last_scrape_time is older than the freshness window, for the codex
\* scraper and for the official scraper; a category that is not eligible is
\* skipped, its raw files and its last_scrape_time left as they are.
C11_FreshnessGate ==
    [][/\ \A c \in CodexCategories :
            /\ CodexBegins(c) =>
                  (cat_outcome'[c] = "skipped"
                      <=> ~EligibleAsStated(run_force, now, last_scrape[c]))
            /\ cat_outcome'[c] = "skipped" =>
                  /\ raw_files'[c] = raw_files[c]
                  /\ last_scrape'[c] = last_scrape[c]
       /\ (OfficialRuns /\ ~EligibleAsStated(run_force, now, official_last_scrape)) =>
             /\ official_raw' = official_raw
             /\ official_last_scrape' = official_last_scrape]_vars

\* C12: run_data_pipeline never terminates with an exception, whichever
\* stage fails, so that the scheduler goes on with the later runs.
C12_RunNeverRaises ==
    run_pc # "failed"

\* The sets of chunks this run made for the documents of one source: a set
\* of chunks starts with the chunk of index 0
ChunkSetsOf(source) ==
    Cardinality({i \in 1..Len(run_chunks) :
                    run_chunks[i].source = source /\ run_chunks[i].chunk_index = 0})

\* The pages this run scraped and saved
ScrapedPages ==
    {<<c, u>> \in CodexCategories \X Urls :
        cat_outcome[c] = "scraped" /\ raw_files[c].pages[u] # <<>>}

\* C30: within one run every document a scraper saved is loaded and chunked
\* exactly once, no document being read from more than one raw JSON file:
\* the run makes one set of chunks per scraped document.
C30_EachDocumentOnce ==
    run_pc = "chunked" =>
        \A p \in ScrapedPages : ChunkSetsOf(PageSource(p[1], p[2])) = 1

(***************************************************************************)
(* The chunker on its own: every bounded text is chunked once, either by a *)
(* direct chunk_text call or as the only raw document of chunk_documents.  *)
(***************************************************************************)
ChunkInit ==
    /\ ct_pc = "input"
    /\ ct_text \in Texts
    /\ ct_chunks = <<>>
    /\ processed = <<>>
    /\ embedding_model = "None"
    /\ model_loads = 0
    /\ EmbedIdle
    /\ IndexIdle
    /\ PipeIdle
    /\ QueryIdle
    /\ WebIdle

CallChunkText ==
    /\ ct_pc = "input"
    /\ ct_chunks' = chunk_text(ct_text, "unknown", "general", 0)
    /\ ct_pc' = "text_done"
    /\ UNCHANGED <<ct_text, processed, embed_vars, index_vars, pipe_vars>>
    /\ UNCHANGED <<setup_result, model_loads, query_vars>>
    /\ UNCHANGED web_vars

CallChunkDocuments ==
    /\ ct_pc = "input"
    /\ ct_chunks' = ChunkAll(<<[text |-> ct_text, source |-> "unknown",
                                type |-> "general"]>>, 0)
    /\ processed' = GroupByType(ct_chunks')
    /\ ct_pc' = "docs_done"
    /\ UNCHANGED <<ct_text, embed_vars, index_vars, pipe_vars>>
    /\ UNCHANGED <<setup_result, model_loads, query_vars>>
    /\ UNCHANGED web_vars

ChunkNext == CallChunkText \/ CallChunkDocuments

SpecChunk == ChunkInit /\ [][ChunkNext]_vars

(***************************************************************************)
(* Claims about the chunker (checked under SpecChunk)                      *)
(***************************************************************************)
ChunkTextLens == [i \in 1..Len(ct_chunks) |-> TextLen(ct_chunks[i].text)]

\* C1: for every text longer than MAX_CHUNK_SIZE, every chunk chunk_text
\* emits except possibly the last has an emitted text length of at least
\* MIN_CHUNK_SIZE and at most MAX_CHUNK_SIZE.
C1_ChunkSizeInvariant ==
    (ct_pc = "text_done" /\ TextLen(ct_text) > MAX_CHUNK_SIZE) =>
        \A i \in 1..(Len(ct_chunks) - 1) :
            /\ ChunkTextLens[i] >= MIN_CHUNK_SIZE
            /\ ChunkTextLens[i] <= MAX_CHUNK_SIZE

\* C2: when chunk_text emits two or more chunks, the last segment of chunk i
\* is the first segment of chunk i+1, for every i, also when that last
\* segment is an empty string or a sentence of an oversized paragraph.
C2_Overlap ==
    (ct_pc = "text_done" /\ Len(ct_chunks) >= 2) =>
        \A i \in 1..(Len(ct_chunks) - 1) :
            LET closed == ct_chunks[i].segments
            IN  closed[Len(closed)] = ct_chunks[i + 1].segments[1]

\* C3: the chunk_index values of the chunks one chunk_text call returns,
\* in list order, are exactly 0, 1, ..., n-1.
C3_ContiguousIndex ==
    (ct_pc = "text_done") =>
        \A i \in 1..Len(ct_chunks) : ct_chunks[i].chunk_index = i - 1

\* A text that needed three or more chunks has been chunked.
C3_Witness == ct_pc = "text_done" /\ Len(ct_chunks) >= 3

HasParagraphBreak(t) == Len(SplitParagraphs(t)) >= 2

\* C4: for every non-empty text shorter than MAX_CHUNK_SIZE, chunk_text
\* returns exactly one chunk, with chunk_index 0 and the input text unchanged
\* (the paragraph split is not applied to it).
C4_FastPath ==
    (ct_pc = "text_done" /\ ct_text # <<>> /\ TextLen(ct_text) < MAX_CHUNK_SIZE) =>
        /\ Len(ct_chunks) = 1
        /\ ct_chunks[1].chunk_index = 0
        /\ Canon(ct_chunks[1].text) = Canon(ct_text)

\* A text of MAX_CHUNK_SIZE - 1 characters that contains a paragraph break
\* has been chunked.
C4_Witness ==
    /\ ct_pc = "text_done"
    /\ TextLen(ct_text) = MAX_CHUNK_SIZE - 1
    /\ HasParagraphBreak(ct_text)
    /\ Len(ct_chunks) = 1

\* C5: a text that is empty or whitespace-only yields zero chunks, from
\* chunk_text and from chunk_documents.
C5_BlankYieldsNothing ==
    (ct_pc \in {"text_done", "docs_done"} /\ IsBlank(ct_text)) => ct_chunks = <<>>

\* The segments chunk_text cuts a long text into: its paragraphs, a paragraph
\* longer than MAX_CHUNK_SIZE replaced by its sentences
RECURSIVE SegmentsOf(_)
SegmentsOf(paragraphs) ==
    IF paragraphs = <<>> THEN <<>>
    ELSE (IF TextLen(Head(paragraphs)) > MAX_CHUNK_SIZE
          THEN SplitSentences(Head(paragraphs)) ELSE <<Head(paragraphs)>>)
         \o SegmentsOf(Tail(paragraphs))

\* The segments of all chunks, chunk after chunk
RECURSIVE ChunkSegments(_)
ChunkSegments(chunks) ==
    IF chunks = <<>> THEN <<>>
    ELSE Head(chunks).segments \o ChunkSegments(Tail(chunks))

\* a is b with some elements left out
RECURSIVE IsSubseq(_, _)
IsSubseq(a, b) ==
    IF a = <<>> THEN TRUE
    ELSE IF b = <<>> THEN FALSE
    ELSE IF Head(a) = Head(b) THEN IsSubseq(Tail(a), Tail(b))
    ELSE IsSubseq(a, Tail(b))

\* C27: chunk_text loses no text.  For every text longer than
\* MAX_CHUNK_SIZE every paragraph (every sentence of an oversized paragraph)
\* is a segment of an emitted chunk, the segments stand in the chunks in
\* input order, each chunk's text is its segments joined, and the last
\* chunk ends with the last segment of the input whatever its size.
C27_NoTextLost ==
    (ct_pc = "text_done" /\ TextLen(ct_text) > MAX_CHUNK_SIZE) =>
        LET segs == SegmentsOf(SplitParagraphs(ct_text))
            last == ct_chunks[Len(ct_chunks)]
        IN  /\ ct_chunks # <<>>
            /\ IsSubseq(segs, ChunkSegments(ct_chunks))
            /\ \A i \in 1..Len(ct_chunks) :
                  /\ ct_chunks[i].text = Join(ct_chunks[i].segments)
                  /\ \A k \in 1..Len(ct_chunks[i].segments) :
                        \E j \in 1..Len(segs) : segs[j] = ct_chunks[i].segments[k]
            /\ last.segments # <<>>
            /\ last.segments[Len(last.segments)] = segs[Len(segs)]

\* A long text has been cut into several chunks, the final one shorter than
\* MIN_CHUNK_SIZE, one paragraph having been split into sentences.
C27_Witness ==
    /\ ct_pc = "text_done"
    /\ TextLen(ct_text) > MAX_CHUNK_SIZE
    /\ Len(ct_chunks) >= 2
    /\ TextLen(ct_chunks[Len(ct_chunks)].text) < MIN_CHUNK_SIZE

\* A long text whose oversized paragraph was split into several sentences
C27_WitnessSentences ==
    /\ ct_pc = "text_done"
    /\ \E i \in 1..Len(SplitParagraphs(ct_text)) :
          /\ TextLen(SplitParagraphs(ct_text)[i]) > MAX_CHUNK_SIZE
          /\ Len(SplitSentences(SplitParagraphs(ct_text)[i])) >= 2
    /\ Len(ct_chunks) >= 2

====
